---- MODULE Spec2Model ----
(***************************************************************************)
(* Request / retry / error-classification pipeline of the Tencent Cloud    *)
(* SDK, its credentials and its paginated listers:                         *)
(*   tencent/cloud/core/errors.py   ErrorManager, error types              *)
(*   tencent/cloud/core/client.py   BaseClient._try_request_action_async,  *)
(*                                  BaseClient._request_action_async,      *)
(*                                  BaseClient._error_handler_callback     *)
(*   tencent/cloud/auth/credentials.py                                     *)
(*                                  Credentials, EnvironmentalCredentials  *)
(*   tencent/cloud/serverless/functions/client.py,                         *)
(*   tencent/cloud/serverless/database/client.py                           *)
(*                                  the list_..._async generators          *)
(*   tencent/cloud/core/proxies.py  Proxies                                *)
(*   tencent/cloud/core/waitable.py OperationWaitable                      *)
(*   tencent/cloud/serverless/functions/__init__.py                        *)
(*                                  FunctionResultFuture, FunctionSchedule,*)
(*                                  Client.schedule_invoke, run_schedule   *)
(*                                                                         *)
(* The specifications share the variables:                                 *)
(*   SpecErrorManager  an ErrorManager driven through its public methods   *)
(*   SpecSettings      an ErrorManager whose settings are assigned         *)
(*   Spec              one client issuing _request_action_async calls      *)
(*   SpecDefault       the same with the ErrorManager left as constructed  *)
(*   SpecTry           _try_request_action_async as a function of its      *)
(*                     arguments and of the HTTP exchange                  *)
(*   SpecCredentials   a Credentials object used by two threads            *)
(*   SpecLister        a paginated lister and the server it lists          *)
(*   SpecTasks         two concurrent _request_action_async calls          *)
(*   SpecUniversal     UniversalClient.action_for_product, both variants   *)
(*   SpecProxies       a Proxies object driven through its methods         *)
(*   SpecSigned        the attempts of a call and the credentials they sign*)
(*   SpecWaitable      an OperationWaitable and the coroutines waiting     *)
(*   SpecSchedule      scheduled invocations and run_schedule              *)
(*   SpecFuture        FunctionResultFutures and their fetches             *)
(***************************************************************************)
EXTENDS Integers, Sequences, FiniteSets, TLC

VARIABLES
    error_handlers,         \* ErrorManager.__error_handlers (ordered list)
    max_number_of_retries,  \* ErrorManager.__max_number_of_retries
    max_backoff_interval,   \* ErrorManager.__max_backoff_interval (seconds)
    enabled,                \* ErrorManager.__enabled
    handler_call,           \* the last call of an ErrorManager method
    last_response_metadata, \* BaseClient.__last_response_metadata
    call,                   \* the _request_action_async call of the client
    try_call,               \* one _try_request_action_async evaluation
    credentials,            \* a Credentials object: its class and fields
    environ,                \* os.environ: the three variables it reads
    set_call,               \* a set_secret_info / refresh_secret_info call
    sign_call,              \* a generate_and_signature call
    lister,                 \* one paginated list_..._async generator
    tasks,                  \* the concurrent _request_action_async calls
    universal,              \* a UniversalClient: product and endpoint
    product_call,           \* the latest action_for_product[_async] call
    proxies,                \* a Proxies object: its entries and active one
    proxy_call,             \* the latest call of a Proxies method
    signatures,             \* the generate_and_signature call of each attempt
    waitable,               \* an OperationWaitable and the calls waiting on it
    schedule,               \* a functions Client and its FunctionSchedules
    futures                 \* the FunctionResultFutures being awaited

coreVars == <<error_handlers, max_number_of_retries, max_backoff_interval,
              enabled, handler_call, last_response_metadata,
              call, try_call>>

authVars == <<credentials, environ, set_call, sign_call>>

listVars == <<lister>>

\* the variables of neither the core call, the credentials nor the lister
restVars == <<tasks, universal, product_call, proxies, proxy_call,
              signatures, waitable, schedule, futures>>

\* the variables outside the single call of the core package
otherVars == <<authVars, listVars, restVars>>

vars == <<coreVars, otherVars>>

managerVars == <<error_handlers, max_number_of_retries, max_backoff_interval,
                 enabled>>

(***************************************************************************)
(* Bounds of the model.                                                    *)
(***************************************************************************)
\* number of distinct user supplied handlers of SpecErrorManager
MaxUserHandlers == 2
\* largest value given to the max_number_of_retries setter
MaxRetries == 2
\* an integer a handler may return that is no ErrorHandlerResult member
OtherResult == 4
\* largest number of page requests of one paginated listing
MaxPages == 3
\* the scheduled invoke tasks of a client
MaxSchedules == 3
\* the fetches of the function result one FunctionResultFuture makes
MaxFetches == 3

(***************************************************************************)
(* errors.py: ErrorHandlerResult                                           *)
(***************************************************************************)
Ignore == 0
Throw == 1
Retry == 2
Backoff == 3

(***************************************************************************)
(* errors.py: exception instances.  Every instance is a record of the same *)
(* shape; the fields a type does not carry are 0 / "".                     *)
(***************************************************************************)
MakeError(kind, status_code, action_id, error_id, error_message, request_id) ==
    [kind |-> kind, status_code |-> status_code, action_id |-> action_id,
     error_id |-> error_id, error_message |-> error_message,
     request_id |-> request_id]

NoError == MakeError("None", 0, "", "", "", "")

\* an exception that carries nothing but its type
PlainError(kind) == MakeError(kind, 0, "", "", "", "")

RequestError == PlainError("RequestError")

\* ResponseError.__init__ (status_code is a non-zero int at every call site)
ResponseError(status_code) ==
    MakeError("ResponseError", status_code, "", "", "", "")

\* ValueError(message), a built-in exception: no subclass of errors.Error
ValueError(message) == MakeError("ValueError", 0, "", "", message, "")

MutActionError(action_id, error_id, error_message, request_id) ==
    IF action_id = "" THEN ValueError("<action_id> value invalid")
    ELSE IF error_id = "" THEN ValueError("<error_id> value invalid")
    ELSE IF error_message = "" THEN ValueError("<error_message> value invalid")
    ELSE IF request_id = "" THEN ValueError("<request_id> value invalid")
    ELSE MakeError("ActionError", 0, action_id, error_message, error_id,
                   request_id)
\* ActionError.__init__: every argument must be a non-empty string
ActionError(action_id, error_id, error_message, request_id) ==
    IF action_id = "" THEN ValueError("<action_id> value invalid")
    ELSE IF error_id = "" THEN ValueError("<error_id> value invalid")
    ELSE IF error_message = "" THEN ValueError("<error_message> value invalid")
    ELSE IF request_id = "" THEN ValueError("<request_id> value invalid")
    ELSE MakeError("ActionError", 0, action_id, error_id, error_message,
                   request_id)

\* isinstance(error_instance, Error)
IsSdkError(e) ==
    e.kind \in {"Error", "NotFoundError", "ExistedError", "OccupiedError",
                "ClientError", "RequestError", "ResponseError",
                "ActionError", "ActionResultError"}

(***************************************************************************)
(* client.py: the built-in error handler                                   *)
(***************************************************************************)
action_retry_error_ids ==
    {"AuthFailure.SignatureExpire", "InternalError", "LimitExceeded",
     "RequestLimitExceeded", "ResourceInsufficient"}

MutErrorHandlerCallback(error_instance, error_retry_count) ==
    IF error_instance.kind = "RequestError" THEN Backoff
    ELSE IF error_instance.kind = "ResponseError"
         THEN Backoff
    ELSE IF error_instance.kind = "ActionError"
         THEN Backoff
    ELSE Ignore
error_handler_callback(error_instance, error_retry_count) ==
    IF error_instance.kind = "RequestError" THEN Backoff
    ELSE IF error_instance.kind = "ResponseError"
         THEN (IF error_instance.status_code >= 500 THEN Backoff ELSE Ignore)
    ELSE IF error_instance.kind = "ActionError"
         THEN (IF error_instance.error_id \in action_retry_error_ids
               THEN Backoff ELSE Ignore)
    ELSE Ignore

(***************************************************************************)
(* Handlers.  Handler 0 is BaseClient._error_handler_callback; handlers    *)
(* 1, 2, ... are user supplied callables.  What a user handler returns is  *)
(* its own business: each invocation of the chain draws an oracle that     *)
(* gives the integer every user handler would return if it were called.    *)
(***************************************************************************)
BuiltinHandler == 0
\* the built-in handler and n user handlers
Handlers(n) == {BuiltinHandler} \cup (1..n)
\* the oracles for one run of a chain: what each of its user handlers
\* returns
OraclesFor(hs) ==
    [{hs[i] : i \in 1..Len(hs)} \ {BuiltinHandler} ->
        {Ignore, Throw, Retry, Backoff, OtherResult}]

\* the call error_handler(self, error_source, error_instance, error_retry_count)
CallHandler(h, oracle, error_instance, error_retry_count) ==
    IF h = BuiltinHandler
    THEN error_handler_callback(error_instance, error_retry_count)
    ELSE oracle[h]

Contains(s, x) == \E i \in 1..Len(s) : s[i] = x

\* list.index(x) of a list that contains x
IndexOf(s, x) == CHOOSE i \in 1..Len(s) :
                    s[i] = x /\ \A j \in 1..(i - 1) : s[j] # x

\* del list[i]
DeleteAt(s, i) == SubSeq(s, 1, i - 1) \o SubSeq(s, i + 1, Len(s))

(***************************************************************************)
(* errors.py: ErrorManager.handler.  The value is a record: the exception  *)
(* it raised ("None" when it returned), the handlers it invoked with what  *)
(* each returned, in order, and the verdict it returned.                   *)
(***************************************************************************)
RECURSIVE MutRunHandlers(_, _, _, _, _)
MutRunHandlers(hs, i, oracle, error_instance, error_retry_count) ==
    IF i > Len(hs)
    THEN [invoked |-> <<>>, result |-> Throw]
    ELSE LET r == CallHandler(hs[i], oracle, error_instance, error_retry_count)
             rest == MutRunHandlers(hs, i + 1, oracle, error_instance,
                                    error_retry_count)
         IN  [invoked |->
                  <<[handler |-> hs[i], result |-> r]>> \o rest.invoked,
              result |-> IF rest.result # Throw \/ r = Ignore
                         THEN rest.result ELSE r]
RECURSIVE MutRunHandlersDefault(_, _, _, _, _)
MutRunHandlersDefault(hs, i, oracle, error_instance, error_retry_count) ==
    IF i > Len(hs)
    THEN [invoked |-> <<>>, result |-> Retry]
    ELSE LET r == CallHandler(hs[i], oracle, error_instance, error_retry_count)
             this == [handler |-> hs[i], result |-> r]
         IN  IF r # Ignore
             THEN [invoked |-> <<this>>, result |-> r]
             ELSE LET rest == MutRunHandlersDefault(hs, i + 1, oracle,
                                  error_instance, error_retry_count)
                  IN  [invoked |-> <<this>> \o rest.invoked,
                       result |-> rest.result]
RECURSIVE RunHandlers(_, _, _, _, _)
\* the for loop over self.__error_handlers, from position i on
RunHandlers(hs, i, oracle, error_instance, error_retry_count) ==
    IF i > Len(hs)
    THEN [invoked |-> <<>>, result |-> Throw]
    ELSE LET r == CallHandler(hs[i], oracle, error_instance, error_retry_count)
             this == [handler |-> hs[i], result |-> r]
         IN  IF r # Ignore
             THEN [invoked |-> <<this>>, result |-> r]
             ELSE LET rest == RunHandlers(hs, i + 1, oracle, error_instance,
                                          error_retry_count)
                  IN  [invoked |-> <<this>> \o rest.invoked,
                       result |-> rest.result]

MutHandler(hs, is_enabled, oracle, error_instance, error_retry_count) ==
    IF ~IsSdkError(error_instance)
    THEN [raised |-> "ValueError", invoked |-> <<>>, result |-> Ignore]
    ELSE LET run == RunHandlers(hs, 1, oracle, error_instance,
                                error_retry_count)
         IN  [raised |-> "None", invoked |-> run.invoked,
              result |-> IF is_enabled THEN run.result ELSE Throw]
handler(hs, is_enabled, oracle, error_instance, error_retry_count) ==
    IF ~IsSdkError(error_instance)
    THEN [raised |-> "ValueError", invoked |-> <<>>, result |-> Ignore]
    ELSE IF ~is_enabled
    THEN [raised |-> "None", invoked |-> <<>>, result |-> Throw]
    ELSE LET run == RunHandlers(hs, 1, oracle, error_instance,
                                error_retry_count)
         IN  [raised |-> "None", invoked |-> run.invoked,
              result |-> run.result]

(***************************************************************************)
(* auth/credentials.py: the values of the Credentials fields.  A Python    *)
(* value is a record of its type and its content.                          *)
(***************************************************************************)
Str(s) == [type |-> "str", value |-> s]
PyNone == [type |-> "NoneType", value |-> ""]
PyInt == [type |-> "int", value |-> "1"]

\* bool(x) and isinstance(x, str)
Truthy(x) == x.type # "NoneType" /\ x.value # ""
IsStr(x) == x.type = "str"

SecretInfo(secret_id, secret_key, secret_token) ==
    [id |-> secret_id, key |-> secret_key, token |-> secret_token]

\* two complete credential sets: the one the object is constructed with
\* and the one that replaces it
OldSecret == SecretInfo(Str("id-1"), Str("key-1"), Str("token-1"))
NewSecret == SecretInfo(Str("id-2"), Str("key-2"), PyNone)
SecretSets == {OldSecret, NewSecret}

\* os.environ restricted to the three variables of
\* EnvironmentalCredentials: <<>> for a variable that is not set
Environ(secret_id, secret_key, secret_token) ==
    [id |-> secret_id, key |-> secret_key, token |-> secret_token]

OldEnviron == Environ(<<"id-1">>, <<"key-1">>, <<"token-1">>)
NewEnviron == Environ(<<"id-2">>, <<"key-2">>, <<>>)

NoSignCall ==
    [pc |-> "idle", args |-> OldSecret, raised |-> "None",
     used |-> SecretInfo(PyNone, PyNone, PyNone)]

\* Credentials.__init__ / EnvironmentalCredentials.__init__ returned: the
\* arguments (the environment) held a valid credential set
InitAuth(class) ==
    /\ credentials = [class |-> class, secret |-> OldSecret]
    /\ environ = OldEnviron
    /\ set_call = [pc |-> "idle", args |-> OldSecret, raised |-> "None"]
    /\ sign_call = NoSignCall

(***************************************************************************)
(* A paginated lister before it is called.                                 *)
(***************************************************************************)
\* operation: the method; total, defect: what the server holds (see below);
\* offset, limit: action_parameters; page, position: the collection of
\* the latest response and the number of its items gone through;
\* requests: the Offset of every request made; yielded: the items
\* yielded; raised, missing: the exception that ended the generator
NoLister ==
    [pc |-> "idle", operation |-> "", total |-> 0, defect |-> 0,
     offset |-> 0, limit |-> 0, page |-> <<>>, position |-> 0,
     requests |-> <<>>, yielded |-> <<>>, raised |-> "None",
     missing |-> ""]

(***************************************************************************)
(* Initial values: the ErrorManager as BaseClient.__init__ constructs it.  *)
(***************************************************************************)
DefaultMaxNumberOfRetries == 10
DefaultMaxBackoffInterval == 64

NoHandlerCall ==
    [called |-> FALSE, error_instance |-> NoError, error_retry_count |-> 0,
     raised |-> "None", invoked |-> <<>>, result |-> Ignore]

NoArgs == [product_id |-> "", action_id |-> "", action_version |-> ""]

\* no _request_action_async call has been made yet
NoCall ==
    [pc |-> "idle", args |-> NoArgs, error_retry_count |-> 0,
     attempts |-> 0, finished |-> 0, sign_calls |-> 0, post_calls |-> 0,
     handler_calls |-> 0, sleeps |-> 0, verdict |-> Ignore,
     backoff_ms |-> 0, error |-> NoError, outcome |-> "none",
     raised |-> NoError, returned |-> <<>>, retries_changed |-> FALSE]

NoResponse ==
    [transport_ok |-> FALSE, status |-> 0, json_ok |-> FALSE,
     has_response |-> FALSE, has_error |-> FALSE, code |-> <<>>,
     message |-> <<>>, request_id |-> <<>>]

NoTryCall ==
    [done |-> FALSE, args |-> NoArgs, sent |-> FALSE, response |-> NoResponse,
     kind |-> "none", error |-> NoError, returned |-> <<>>]

\* the calls that run concurrently on the client, each with the retry
\* counts it has passed to ErrorManager.handler (handled)
Tasks == {1, 2}
NoTask == NoCall @@ [handled |-> <<>>]

\* UniversalClient.__init__(product_id): the endpoint bound to the client is
\* product_id + '.tencentcloudapi.com'
EndpointOf(product_id) == product_id \o ".tencentcloudapi.com"
NewUniversalClient(product_id) ==
    [product_id |-> product_id, access_endpoint |-> EndpointOf(product_id)]

\* an entry of Proxies.__proxies; auth is "None" or the name of a dict
ProxyServer(proxy_type, proxy_endpoint, proxy_auth) ==
    [type |-> proxy_type, endpoint |-> proxy_endpoint, auth |-> proxy_auth]

\* waitable.py: WaitableStatus
Created == 0
Waiting == 1
Completed == 2

\* the wait_for_done_async calls that may run at the same time
Waiters == {1, 2, 3}

\* a FunctionSchedule that schedule_invoke has not created yet
NoSchedule ==
    [state |-> "none", invoked_callback |-> FALSE, outcome |-> "none",
     invoked_calls |-> 0, completed_calls |-> 0, raised |-> "None"]

\* the FunctionResultFutures of two easy_invoke_async calls
Futures == {1, 2}

\* The objects that are neither the ErrorManager, the single call, the
\* credentials nor the lister, as constructed:
\*   UniversalClient('scf') and no action_for_product call made;
\*   Proxies('a', ProxyType.Http, 'host-1:8080'), whose __init__ adds the
\*   entry and makes it the active one;
\*   Waitable.__init__: status Created, result None (<<>>); waits is the
\*   position of each wait_for_done_async call, completed tells that some
\*   call has returned a result;
\*   functions Client.__init__ (lines 316-317): no task scheduled,
\*   run_schedule not waiting; raised is what the latest run_schedule or
\*   cancel raised;
\*   FunctionResultFuture.__init__: an asyncio.Future that is pending.
\*   exception and result are <<>> while not set, pc is the position of the
\*   fetch of the function result, fetches the number of fetches started,
\*   fetched the outcome of the latest fetch and raised the exception that
\*   left _complete_callback.
InitRest ==
    /\ tasks = [t \in Tasks |-> NoTask]
    /\ universal = NewUniversalClient("scf")
    /\ product_call =
           [called |-> FALSE, variant |-> "", product_id |-> "",
            access_endpoint |-> <<>>, bound |-> "", request_hostname |-> "",
            url_host |-> "", signature_product_id |-> ""]
    /\ proxies = [servers |-> [n \in {"a"} |->
                                ProxyServer("http", "host-1:8080", "None")],
                  proxy_name |-> "a", proxy_type |-> "http",
                  proxy_endpoint |-> "host-1:8080", proxy_auth |-> "None"]
    /\ proxy_call = [method |-> "__init__", raised |-> "None"]
    /\ signatures = <<>>
    /\ waitable = [status |-> Created, result |-> <<>>,
                   waits |-> [w \in Waiters |-> "idle"], completed |-> FALSE]
    /\ schedule = [count |-> 0, waited |-> FALSE, raised |-> "None",
                   tasks |-> [t \in 1..MaxSchedules |-> NoSchedule]]
    /\ futures =
           [f \in Futures |->
               [state |-> "pending", exception |-> <<>>, result |-> <<>>,
                pc |-> "new", fetches |-> 0, fetched |-> "none",
                raised |-> "None"]]

\* the objects outside the single call of the core package, as constructed;
\* a client that is given no credentials constructs EnvironmentalCredentials
InitOther ==
    /\ InitAuth("EnvironmentalCredentials")
    /\ lister = NoLister
    /\ InitRest

\* ErrorManager.__init__ called with error_handlers = [_error_handler_callback]
InitManager ==
    /\ error_handlers = <<BuiltinHandler>>
    /\ max_number_of_retries = DefaultMaxNumberOfRetries
    /\ max_backoff_interval = DefaultMaxBackoffInterval
    /\ enabled = TRUE
    /\ handler_call = NoHandlerCall

\* the core objects as constructed
InitCore ==
    /\ InitManager
    /\ last_response_metadata = <<>>
    /\ call = NoCall
    /\ try_call = NoTryCall

\* the client as BaseClient.__init__ leaves it, with the objects outside
\* the call as constructed
Init ==
    /\ InitCore
    /\ InitOther

\* the same with either class of credentials
InitCredentials ==
    /\ InitCore
    /\ \E class \in {"Credentials", "EnvironmentalCredentials"} :
          InitAuth(class)
    /\ lister = NoLister
    /\ InitRest

(***************************************************************************)
(* errors.py: the methods of ErrorManager                                  *)
(***************************************************************************)
MutAppendHandler(hs, h) == Append(hs, h)
\* the body of add_handler: the new list, or the list as it was
AppendHandler(hs, h) == IF Contains(hs, h) THEN hs ELSE Append(hs, h)

\* what add_handler raises: ExistedError for a handler already in the list
AddHandlerRaised(hs, h) == IF Contains(hs, h) THEN "ExistedError" ELSE "None"

\* what remove_handler raises: list.index raises ValueError for a handler
\* that is not in the list, which becomes NotFoundError
RemoveHandlerRaised(hs, h) ==
    IF Contains(hs, h) THEN "None" ELSE "NotFoundError"

\* the record an ErrorManager method other than handler leaves in
\* handler_call: the exception it raised, "None" when it returned
MethodCall(raised) == [NoHandlerCall EXCEPT !.raised = raised]

AddHandler(h) ==
    /\ error_handlers' = AppendHandler(error_handlers, h)
    /\ handler_call' = MethodCall(AddHandlerRaised(error_handlers, h))
    /\ UNCHANGED otherVars
    /\ UNCHANGED <<max_number_of_retries, max_backoff_interval, enabled,
                   last_response_metadata, call, try_call>>

RemoveHandler(h) ==
    /\ error_handlers' = IF Contains(error_handlers, h)
                         THEN DeleteAt(error_handlers,
                                       IndexOf(error_handlers, h))
                         ELSE error_handlers
    /\ handler_call' = MethodCall(RemoveHandlerRaised(error_handlers, h))
    /\ UNCHANGED otherVars
    /\ UNCHANGED <<max_number_of_retries, max_backoff_interval, enabled,
                   last_response_metadata, call, try_call>>

ClearAllHandler ==
    /\ error_handlers' = <<>>
    /\ handler_call' = NoHandlerCall
    /\ UNCHANGED otherVars
    /\ UNCHANGED <<max_number_of_retries, max_backoff_interval, enabled,
                   last_response_metadata, call, try_call>>

\* the setter of enabled, given a bool
SetEnabled(value) ==
    /\ enabled' = value
    /\ handler_call' = NoHandlerCall
    /\ UNCHANGED otherVars
    /\ UNCHANGED <<error_handlers, max_number_of_retries, max_backoff_interval,
                   last_response_metadata, call, try_call>>

\* the setter of max_backoff_interval, given an int: it has the check of
\* the other setter and no assignment
StoredMaxBackoffInterval(current, value) == current

SetMaxNumberOfRetries(value) ==
    /\ max_number_of_retries' =
           (IF value = 0 THEN max_number_of_retries ELSE value)
    /\ handler_call' = MethodCall(IF value = 0 THEN "ValueError" ELSE "None")
    /\ call' = IF call.pc # "idle" /\ value # 0
                  /\ value # max_number_of_retries
               THEN [call EXCEPT !.retries_changed = TRUE] ELSE call
    /\ UNCHANGED otherVars
    /\ UNCHANGED <<error_handlers, max_backoff_interval, enabled,
                   last_response_metadata, try_call>>

\* the setter of max_backoff_interval, given an int: it validates the value
\* and returns without storing it
SetMaxBackoffInterval(value) ==
    /\ max_backoff_interval' =
           StoredMaxBackoffInterval(max_backoff_interval, value)
    /\ handler_call' = MethodCall(IF value = 0 THEN "ValueError" ELSE "None")
    /\ UNCHANGED otherVars
    /\ UNCHANGED <<error_handlers, max_number_of_retries, enabled,
                   last_response_metadata, call, try_call>>

(***************************************************************************)
(* The exception instances handed to ErrorManager.handler: instances of    *)
(* errors.Error, as the parameter is annotated.                            *)
(***************************************************************************)

\* a direct call ErrorManager.handler(error_source, error_instance, count).
\* handler_call holds one call: the record is replaced by the next
\* ErrorManager operation (SetEnabled(enabled) leaves all else as it is), and
\* the call after that is recorded again.
HandleError(error_instance, error_retry_count, oracle) ==
    /\ ~handler_call.called
    /\ LET h == handler(error_handlers, enabled, oracle, error_instance,
                     error_retry_count)
       IN  handler_call' = [called |-> TRUE,
                            error_instance |-> error_instance,
                            error_retry_count |-> error_retry_count,
                            raised |-> h.raised, invoked |-> h.invoked,
                            result |-> h.result]
    /\ UNCHANGED otherVars
    /\ UNCHANGED <<managerVars, last_response_metadata, call, try_call>>

NextErrorManager ==
    \/ \E h \in Handlers(MaxUserHandlers) : AddHandler(h)
    \/ \E h \in Handlers(MaxUserHandlers) : RemoveHandler(h)
    \/ ClearAllHandler
    \/ \E v \in BOOLEAN : SetEnabled(v)
    \* the error instances and retry counts handed to ErrorManager.handler
    \/ \E e \in {RequestError, PlainError("ActionResultError"),
                 PlainError("NotFoundError")}
                \cup {ResponseError(s) : s \in {204, 499, 500, 503}}
                \cup {ActionError("Invoke", id, "message", "request-1") :
                        id \in action_retry_error_ids
                                 \cup {"ResourceNotFound"}},
          n \in {0, 1},
          oracle \in OraclesFor(error_handlers) : HandleError(e, n, oracle)

SpecErrorManager == Init /\ [][NextErrorManager]_vars

(***************************************************************************)
(* client.py: BaseClient._try_request_action_async                         *)
(*                                                                         *)
(* The arguments are strings; "" is the empty string.  region_id,          *)
(* action_parameters and access_endpoint pass their checks when they are   *)
(* of the annotated type, so they are left out.                            *)
(***************************************************************************)

ActionArgs == [product_id : {"", "scf"}, action_id : {"", "Invoke"},
               action_version : {"", "2018-04-16"}]

\* lines 394-410: the ValueError of the first check that fails, or NoError
ValidateArgs(args) ==
    IF args.product_id = "" THEN ValueError("<product_id> value invalid")
    ELSE IF args.action_id = "" THEN ValueError("<action_id> value invalid")
    ELSE IF args.action_version = ""
         THEN ValueError("<action_version> value invalid")
    ELSE NoError

(***************************************************************************)
(* What the HTTP exchange delivers.  An optional JSON field is a sequence: *)
(* <<>> when the field is missing, <<v>> when it is present with value v.  *)
(***************************************************************************)

TransportFailure == NoResponse

StatusResponse(status) ==
    [transport_ok |-> TRUE, status |-> status, json_ok |-> FALSE,
     has_response |-> FALSE, has_error |-> FALSE, code |-> <<>>,
     message |-> <<>>, request_id |-> <<>>]

JsonResponse(has_response, has_error, code, message, request_id) ==
    [transport_ok |-> TRUE, status |-> 200, json_ok |-> TRUE,
     has_response |-> has_response, has_error |-> has_error, code |-> code,
     message |-> message, request_id |-> request_id]

\* the exchanges drawn for the attempts of a _request_action_async call:
\* one for each way through the code after the POST
CallResponses ==
    {TransportFailure, StatusResponse(204), StatusResponse(404),
     StatusResponse(500), StatusResponse(200),
     JsonResponse(FALSE, FALSE, <<>>, <<>>, <<>>),
     JsonResponse(TRUE, FALSE, <<>>, <<>>, <<>>),
     JsonResponse(TRUE, FALSE, <<>>, <<>>, <<"request-1">>),
     JsonResponse(TRUE, TRUE, <<>>, <<"message">>, <<"request-1">>),
     JsonResponse(TRUE, TRUE, <<"">>, <<"message">>, <<"request-1">>),
     JsonResponse(TRUE, TRUE, <<"InternalError">>, <<"message">>,
                  <<"request-1">>),
     JsonResponse(TRUE, TRUE, <<"ResourceNotFound">>, <<"message">>,
                  <<"request-1">>)}

\* the value of one evaluation: what it raised or returned, and the
\* metadata the client holds afterwards
Raise(error, metadata) ==
    [kind |-> "raise", error |-> error, returned |-> <<>>,
     metadata |-> metadata]
MutReturn(request_id, metadata) ==
    [kind |-> "return", error |-> NoError, returned |-> <<>>,
     metadata |-> metadata]
\* line 484: return response_result['Response']
Return(request_id, metadata) ==
    [kind |-> "return", error |-> NoError, returned |-> <<request_id>>,
     metadata |-> metadata]

\* lines 478-482: the KeyError of a missing field is caught and a
\* ResponseError is built from response_context.status_code; an aiohttp
\* ClientResponse has the attribute status and no attribute status_code, so
\* the expression raises AttributeError before ResponseError is constructed
MissingField == MakeError("AttributeError", 0, "", "", "status_code", "")

MutEnvelope(action_id, response, metadata) ==
    IF ~response.has_response THEN Raise(MissingField, metadata)
    ELSE IF response.request_id = <<>> THEN Raise(MissingField, metadata)
    ELSE IF response.has_error
    THEN IF response.code = <<>> \/ response.message = <<>>
         THEN Raise(MissingField, <<response.request_id[1]>>)
         ELSE Raise(ActionError(action_id, response.code[1],
                                response.message[1], response.request_id[1]),
                    <<response.request_id[1]>>)
    ELSE Return(response.request_id[1], <<response.request_id[1]>>)
\* lines 466-484: the parsed body
Envelope(action_id, response, metadata) ==
    IF ~response.has_response THEN Raise(MissingField, metadata)
    ELSE IF response.has_error
    THEN IF response.code = <<>> \/ response.message = <<>>
            \/ response.request_id = <<>>
         THEN Raise(MissingField, metadata)
         ELSE Raise(ActionError(action_id, response.code[1],
                                response.message[1], response.request_id[1]),
                    metadata)
    ELSE IF response.request_id = <<>> THEN Raise(MissingField, metadata)
    ELSE Return(response.request_id[1], <<response.request_id[1]>>)

\* lines 422-484: from the completion of the HTTP exchange on
AfterPost(action_id, response, metadata) ==
    IF ~response.transport_ok \/ response.status >= 400
    THEN Raise(RequestError, metadata)
    ELSE IF response.status # 200
    THEN Raise(ResponseError(response.status), metadata)
    ELSE IF ~response.json_ok THEN Raise(ResponseError(response.status),
                                         metadata)
    ELSE Envelope(action_id, response, metadata)

\* one whole evaluation of _try_request_action_async
TryRequestAction(args, response) ==
    LET invalid == ValidateArgs(args)
        out == IF invalid # NoError
               THEN Raise(invalid, last_response_metadata)
               ELSE AfterPost(args.action_id, response,
                              last_response_metadata)
    IN  /\ try_call' = [done |-> TRUE, args |-> args,
                        sent |-> (invalid = NoError),
                        response |-> IF invalid = NoError THEN response
                                     ELSE NoResponse,
                        kind |-> out.kind, error |-> out.error,
                        returned |-> out.returned]
        /\ last_response_metadata' = out.metadata
        /\ UNCHANGED otherVars
        /\ UNCHANGED <<managerVars, handler_call, call>>

NextTry ==
    \* every outcome of the HTTP exchange: a transport failure, a status,
    \* a body without 'Response', one without 'Error' and one with it
    \E args \in ActionArgs,
       response \in
           {TransportFailure}
           \cup {StatusResponse(s) : s \in {200, 204, 404, 500}}
           \cup {JsonResponse(FALSE, FALSE, <<>>, <<>>, <<>>)}
           \cup {JsonResponse(TRUE, FALSE, <<>>, <<>>, r) :
                   r \in {<<>>, <<"">>, <<"request-1">>}}
           \cup {JsonResponse(TRUE, TRUE, c, m, r) :
                   c \in {<<>>, <<"">>, <<"InternalError">>,
                          <<"ResourceNotFound">>},
                   m \in {<<>>, <<"">>, <<"message">>},
                   r \in {<<>>, <<"">>, <<"request-1">>}} :
        TryRequestAction(args, response)

SpecTry == Init /\ [][NextTry]_vars

(***************************************************************************)
(* client.py: BaseClient._request_action_async                             *)
(*                                                                         *)
(* The coroutine suspends at the HTTP request (pc = "http") and at the     *)
(* backoff sleep (pc = "sleep"); everything between two suspensions is one  *)
(* step.  The fields attempts, finished, sign_calls, post_calls,           *)
(* handler_calls and sleeps count what the call has done so far; error is  *)
(* the exception of the latest finished attempt (NoError if it returned)   *)
(* and verdict what the handler chain answered for it (Ignore when the     *)
(* chain was not consulted).                                               *)
(***************************************************************************)

\* random.randint(1, 1000)
JitterMin == 1
JitterMax == 1000

Min(a, b) == IF a <= b THEN a ELSE b

MutBackoffDelay(error_retry_count, jitter, max_interval) ==
    1000 * (2 ^ error_retry_count) + jitter
\* lines 532-536, in milliseconds:
\* min(2 ** error_retry_count + randint(1, 1000) / 1000, max_backoff_interval)
BackoffDelay(error_retry_count, jitter, max_interval) ==
    Min(1000 * (2 ^ error_retry_count) + jitter, 1000 * max_interval)

\* from the top of the while loop to the first suspension of the attempt:
\* the argument checks, the signature and the start of the POST
BeginAttempt(c) ==
    LET invalid == ValidateArgs(c.args)
    IN  IF invalid # NoError
        THEN [c EXCEPT !.pc = "done", !.attempts = @ + 1,
                       !.finished = @ + 1, !.error = invalid,
                       !.outcome = "raised", !.raised = invalid,
                       !.backoff_ms = 0, !.error_retry_count = @ + 1]
        ELSE [c EXCEPT !.pc = "http", !.attempts = @ + 1,
                       !.sign_calls = @ + 1, !.post_calls = @ + 1,
                       !.backoff_ms = 0]

\* the finally clause, then the next iteration of the loop
NextAttempt(c) ==
    BeginAttempt([c EXCEPT !.error_retry_count = @ + 1])

\* raise: the exception leaves the call (the finally clause runs first)
ReRaise(c, error) ==
    [c EXCEPT !.pc = "done", !.outcome = "raised", !.raised = error,
              !.error_retry_count = @ + 1]

\* the error classes the except clause catches
MutIntercepted(error) == error.kind # "None"
Intercepted(error) ==
    error.kind \in {"RequestError", "ResponseError", "ActionError"}

\* line 525
MutRetriesExhausted(error_retry_count, limit) == error_retry_count >= limit - 1
RetriesExhausted(error_retry_count, limit) == error_retry_count = limit

\* lines 531-540: what the loop does with the verdict of the handler chain
MutActOnVerdict(c, verdict, jitter) ==
    IF verdict = Backoff \/ verdict = Retry
    THEN [c EXCEPT !.pc = "sleep", !.sleeps = @ + 1,
                   !.backoff_ms = BackoffDelay(c.error_retry_count, jitter,
                                               max_backoff_interval)]
    ELSE IF verdict = Throw THEN ReRaise(c, c.error)
    ELSE NextAttempt(c)
ActOnVerdict(c, verdict, jitter) ==
    IF verdict = Backoff
    THEN [c EXCEPT !.pc = "sleep", !.sleeps = @ + 1,
                   !.backoff_ms = BackoffDelay(c.error_retry_count, jitter,
                                               max_backoff_interval)]
    ELSE IF verdict = Retry THEN NextAttempt(c)
    ELSE IF verdict = Throw THEN ReRaise(c, c.error)
    ELSE NextAttempt(c)

\* a caller awaits _request_action_async(...): the first attempt starts
RequestAction(args) ==
    /\ call.pc \in {"idle", "done"}
    /\ call' = BeginAttempt([NoCall EXCEPT !.args = args])
    /\ UNCHANGED otherVars
    /\ UNCHANGED <<managerVars, handler_call, last_response_metadata,
                   try_call>>

\* the HTTP exchange of the running attempt completes: the rest of
\* _try_request_action_async, and on an exception the except clause.
\* cap bounds the attempts of the call.
HttpResponse(response, cap) ==
    /\ call.pc = "http"
    /\ LET out == AfterPost(call.args.action_id, response,
                            last_response_metadata)
           ended == [call EXCEPT !.finished = @ + 1, !.error = out.error,
                                 !.verdict = Ignore]
       IN  /\ last_response_metadata' = out.metadata
           /\ IF out.kind = "return"
              THEN call' = [ended EXCEPT !.pc = "done",
                                         !.outcome = "returned",
                                         !.returned = out.returned,
                                         !.error_retry_count = @ + 1]
              ELSE IF ~Intercepted(out.error)
              THEN call' = ReRaise(ended, out.error)
              ELSE IF RetriesExhausted(call.error_retry_count,
                                       max_number_of_retries)
              THEN call' = ReRaise(ended, out.error)
              ELSE \E oracle \in OraclesFor(error_handlers) :
                     LET h == handler(error_handlers, enabled, oracle,
                                      out.error, call.error_retry_count)
                         judged == [ended EXCEPT !.handler_calls = @ + 1,
                                                 !.verdict = h.result]
                     IN  IF h.raised # "None"
                         THEN call' = ReRaise(
                                  [ended EXCEPT !.handler_calls = @ + 1],
                                  ValueError("<error_instance> value invalid"))
                         ELSE \E jitter \in
                                    IF h.result = Backoff
                                    THEN {JitterMin,
                                          (JitterMin + JitterMax) \div 2,
                                          JitterMax}
                                    ELSE {JitterMin} :
                                /\ call' = ActOnVerdict(judged, h.result,
                                                        jitter)
                                /\ call'.attempts <= cap
    /\ UNCHANGED otherVars
    /\ UNCHANGED <<managerVars, handler_call, try_call>>

\* asyncio.sleep returns: the finally clause, then the next attempt
Wake(cap) ==
    /\ call.pc = "sleep"
    /\ call.attempts < cap
    /\ call' = NextAttempt(call)
    /\ UNCHANGED otherVars
    /\ UNCHANGED <<managerVars, handler_call, last_response_metadata,
                   try_call>>

\* the values given to the setters
RetryInputs == {-1, 0, 1, MaxRetries}
BackoffInputs == {0, 1}

\* the handlers registered and removed while calls run: the built-in one
\* and one handler of the user
CallHandlers == {BuiltinHandler, 1}

\* cap on the attempts of one call in Spec (a negative
\* max_number_of_retries never stops the loop)
MaxAttempts == MaxRetries + 2

Next ==
    \/ \E h \in CallHandlers :
          AddHandlerRaised(error_handlers, h) = "None" /\ AddHandler(h)
    \/ \E h \in CallHandlers :
          RemoveHandlerRaised(error_handlers, h) = "None" /\ RemoveHandler(h)
    \/ ClearAllHandler
    \/ \E v \in BOOLEAN : SetEnabled(v)
    \/ \E v \in RetryInputs \ {0} : SetMaxNumberOfRetries(v)
    \/ \E v \in BackoffInputs \ {0} : SetMaxBackoffInterval(v)
    \/ \E args \in ActionArgs : RequestAction(args)
    \/ \E response \in CallResponses : HttpResponse(response, MaxAttempts)
    \/ Wake(MaxAttempts)

Spec == Init /\ [][Next]_vars

(***************************************************************************)
(* A client whose ErrorManager is left as constructed: 10 retries, 64      *)
(* seconds, enabled, the built-in handler only.                            *)
(***************************************************************************)

NextDefault ==
    \/ \E args \in ActionArgs : RequestAction(args)
    \/ \E response \in CallResponses :
          HttpResponse(response, DefaultMaxNumberOfRetries + 2)
    \/ Wake(DefaultMaxNumberOfRetries + 2)

SpecDefault == Init /\ [][NextDefault]_vars

(***************************************************************************)
(* auth/credentials.py: Credentials and EnvironmentalCredentials           *)
(*                                                                         *)
(* A Credentials object is handed to the clients that sign with it, and    *)
(* clients live in several threads (functions.fetch_client keeps one per   *)
(* thread).  No method takes a lock, so a step is one statement that reads *)
(* or writes a field of the object: set_call is a call made by one thread, *)
(* sign_call a call made by another.                                       *)
(***************************************************************************)
MutValidateSecretInfo(args) ==
    IF ~Truthy(args.id) \/ ~IsStr(args.id) THEN "ValueError"
    ELSE IF Truthy(args.token) /\ ~IsStr(args.token) THEN "ValueError"
    ELSE "None"
\* the checks of set_secret_info: what they raise
ValidateSecretInfo(args) ==
    IF ~Truthy(args.id) \/ ~IsStr(args.id) THEN "ValueError"
    ELSE IF ~Truthy(args.key) \/ ~IsStr(args.key) THEN "ValueError"
    ELSE IF Truthy(args.token) /\ ~IsStr(args.token) THEN "ValueError"
    ELSE "None"

\* EnvironmentalCredentials.refresh_secret_info up to the assignments of
\* set_secret_info: os.environ[name] raises KeyError for a variable that
\* is not set, os.environ.get(name, None) gives None
RefreshFromEnviron(env) ==
    IF env.id = <<>> \/ env.key = <<>>
    THEN [raised |-> "KeyError", args |-> OldSecret]
    ELSE LET args == SecretInfo(Str(env.id[1]), Str(env.key[1]),
                                IF env.token = <<>> THEN PyNone
                                ELSE Str(env.token[1]))
         IN  [raised |-> ValidateSecretInfo(args), args |-> args]

\* set_secret_info is entered by the call c: the checks, then
\* self.__secret_id = secret_id.  The call and the object afterwards.
BeginSetSecretInfo(c, object, args, raised) ==
    IF raised # "None"
    THEN [call |-> [c EXCEPT !.pc = "done", !.args = args,
                             !.raised = raised],
          object |-> object]
    ELSE [call |-> [c EXCEPT !.pc = "secret_key", !.args = args,
                             !.raised = "None"],
          object |-> [object EXCEPT !.secret.id = args.id]]

\* a thread calls set_secret_info(secret_id, secret_key, secret_token)
SetSecretInfo(args) ==
    /\ set_call.pc \in {"idle", "done"}
    /\ LET begun == BeginSetSecretInfo(set_call, credentials, args,
                                       ValidateSecretInfo(args))
       IN  /\ set_call' = begun.call
           /\ credentials' = begun.object
    /\ UNCHANGED <<coreVars, listVars, restVars, environ, sign_call>>

\* a thread calls refresh_secret_info(): pass in Credentials
RefreshSecretInfo ==
    /\ set_call.pc \in {"idle", "done"}
    /\ IF credentials.class = "Credentials"
       THEN /\ set_call' = [set_call EXCEPT !.pc = "done", !.raised = "None"]
            /\ UNCHANGED credentials
       ELSE LET r == RefreshFromEnviron(environ)
                begun == BeginSetSecretInfo(set_call, credentials, r.args,
                                            r.raised)
            IN  /\ set_call' = begun.call
                /\ credentials' = begun.object
    /\ UNCHANGED <<coreVars, listVars, restVars, environ, sign_call>>

\* self.__secret_key = secret_key
SetSecretKey ==
    /\ set_call.pc = "secret_key"
    /\ credentials' = [credentials EXCEPT !.secret.key = set_call.args.key]
    /\ set_call' = [set_call EXCEPT !.pc = "secret_token"]
    /\ UNCHANGED <<coreVars, listVars, restVars, environ, sign_call>>

\* self.__secret_token = secret_token
SetSecretToken ==
    /\ set_call.pc = "secret_token"
    /\ credentials' = [credentials EXCEPT !.secret.token = set_call.args.token]
    /\ set_call' = [set_call EXCEPT !.pc = "done"]
    /\ UNCHANGED <<coreVars, listVars, restVars, environ, sign_call>>

\* the program changes the environment variables
SetEnviron(env) ==
    /\ environ' = env
    /\ UNCHANGED <<coreVars, listVars, restVars>>
    /\ UNCHANGED <<credentials, set_call, sign_call>>

\* a thread calls generate_and_signature with valid request arguments: it
\* begins with self.refresh_secret_info()
GenerateAndSignature ==
    /\ sign_call.pc \in {"idle", "done"}
    /\ IF credentials.class = "Credentials"
       THEN /\ sign_call' = [NoSignCall EXCEPT !.pc = "signature"]
            /\ UNCHANGED credentials
       ELSE LET r == RefreshFromEnviron(environ)
                begun == BeginSetSecretInfo(NoSignCall, credentials, r.args,
                                            r.raised)
            IN  /\ sign_call' = begun.call
                /\ credentials' = begun.object
    /\ UNCHANGED <<coreVars, listVars, restVars, environ, set_call>>

\* the refresh of the signing call: self.__secret_key = secret_key
SignSetSecretKey ==
    /\ sign_call.pc = "secret_key"
    /\ credentials' = [credentials EXCEPT !.secret.key = sign_call.args.key]
    /\ sign_call' = [sign_call EXCEPT !.pc = "secret_token"]
    /\ UNCHANGED <<coreVars, listVars, restVars, environ, set_call>>

\* the refresh of the signing call: self.__secret_token = secret_token
SignSetSecretToken ==
    /\ sign_call.pc = "secret_token"
    /\ credentials' = [credentials EXCEPT
                          !.secret.token = sign_call.args.token]
    /\ sign_call' = [sign_call EXCEPT !.pc = "signature"]
    /\ UNCHANGED <<coreVars, listVars, restVars, environ, set_call>>

\* signature(): the HMAC key is derived from self.__secret_key
Signature ==
    /\ sign_call.pc = "signature"
    /\ sign_call' = [sign_call EXCEPT !.pc = "auth_content",
                                      !.used.key = credentials.secret.key]
    /\ UNCHANGED <<coreVars, listVars, restVars>>
    /\ UNCHANGED <<credentials, environ, set_call>>

\* generate_auth_content(): Credential={SECRET_ID} is self.__secret_id
GenerateAuthContent ==
    /\ sign_call.pc = "auth_content"
    /\ sign_call' = [sign_call EXCEPT !.pc = "return",
                                      !.used.id = credentials.secret.id]
    /\ UNCHANGED <<coreVars, listVars, restVars>>
    /\ UNCHANGED <<credentials, environ, set_call>>

\* the second member of the returned tuple is self.__secret_token
ReturnToken ==
    /\ sign_call.pc = "return"
    /\ sign_call' = [sign_call EXCEPT !.pc = "done",
                                      !.used.token = credentials.secret.token]
    /\ UNCHANGED <<coreVars, listVars, restVars>>
    /\ UNCHANGED <<credentials, environ, set_call>>

NextCredentials ==
    \* the arguments of set_secret_info: valid ones, and an empty, a
    \* non-str or a missing value in each position
    \/ \E args \in SecretSets
                   \cup {SecretInfo(Str(""), Str("key-2"), PyNone),
                         SecretInfo(PyInt, Str("key-2"), PyNone),
                         SecretInfo(PyNone, Str("key-2"), PyNone),
                         SecretInfo(Str("id-2"), Str(""), PyNone),
                         SecretInfo(Str("id-2"), PyInt, PyNone),
                         SecretInfo(Str("id-2"), Str("key-2"), PyInt)} :
          SetSecretInfo(args)
    \/ RefreshSecretInfo
    \/ SetSecretKey
    \/ SetSecretToken
    \* the environments: complete ones, and ones with a variable unset or
    \* empty
    \/ \E env \in {OldEnviron, NewEnviron,
                   Environ(<<>>, <<"key-2">>, <<>>),
                   Environ(<<"id-2">>, <<>>, <<>>),
                   Environ(<<"">>, <<"key-2">>, <<>>),
                   Environ(<<"id-2">>, <<"">>, <<>>)} :
          SetEnviron(env)
    \/ GenerateAndSignature
    \/ SignSetSecretKey
    \/ SignSetSecretToken
    \/ Signature
    \/ GenerateAuthContent
    \/ ReturnToken

SpecCredentials == InitCredentials /\ [][NextCredentials]_vars

(***************************************************************************)
(* serverless/functions/client.py, serverless/database/client.py: the      *)
(* paginated listers (async generators).                                   *)
(*                                                                         *)
(* The server holds the items 1 .. total and answers a request for         *)
(* (Offset, Limit) with the items Offset+1 .. Offset+Limit that exist.     *)
(* Item defect (0: none) lacks a field the lister maps.  A step runs the   *)
(* generator from one suspension (the await of action_async, a yield) to   *)
(* the next.                                                               *)
(***************************************************************************)

\* action_parameters['Limit']
Limit(operation) == IF operation = "get_function_results" THEN 100 ELSE 20

\* the Offset of the request after a full page: list_instances_async has
\* no statement that advances action_parameters['Offset']
NextOffset(operation, offset, limit) ==
    IF operation = "list_instances" THEN offset ELSE offset + limit

\* the collection of the response to (Offset, Limit)
ServerPage(total, offset, limit) ==
    LET n == IF total - offset <= 0 THEN 0
             ELSE IF total - offset < limit THEN total - offset
             ELSE limit
    IN  [i \in 1..n |-> offset + i]

MutConsume(l) ==
    IF l.position < Len(l.page)
    THEN LET item == l.page[l.position + 1]
         IN  IF item = l.defect
             THEN [l EXCEPT !.pc = "done", !.raised = "ActionResultError",
                            !.missing = "item", !.yielded = <<>>]
             ELSE [l EXCEPT !.pc = "yield", !.position = @ + 1,
                            !.yielded = Append(@, item)]
    ELSE IF Len(l.page) < l.limit
    THEN [l EXCEPT !.pc = "done"]
    ELSE LET next == NextOffset(l.operation, l.offset, l.limit)
         IN  [l EXCEPT !.pc = "request", !.offset = next,
                       !.requests = Append(@, next)]
\* the generator runs on behind item l.position of l.page: the next item is
\* mapped and yielded, or its KeyError becomes ActionResultError; behind
\* the last item a short page ends the generator and a full page is
\* followed by the next request
Consume(l) ==
    IF l.position < Len(l.page)
    THEN LET item == l.page[l.position + 1]
         IN  IF item = l.defect
             THEN [l EXCEPT !.pc = "done", !.raised = "ActionResultError",
                            !.missing = "item"]
             ELSE [l EXCEPT !.pc = "yield", !.position = @ + 1,
                            !.yielded = Append(@, item)]
    ELSE IF Len(l.page) < l.limit
    THEN [l EXCEPT !.pc = "done"]
    ELSE LET next == NextOffset(l.operation, l.offset, l.limit)
         IN  [l EXCEPT !.pc = "request", !.offset = next,
                       !.requests = Append(@, next)]

\* the numbers of items the server holds, and the item that is defective
Totals(limit) == {0, 1, limit - 1, limit, limit + 1, 2 * limit, 2 * limit + 1}
Defects(total, limit) == {0} \cup ({1, limit, limit + 1, total} \cap 1..total)

\* the consumer starts to iterate list_..._async(region_id, ...) with valid
\* arguments: the generator runs up to its first request
ListAsync(operation, total, defect) ==
    /\ lister.pc \in {"idle", "done"}
    /\ lister' = [NoLister EXCEPT !.pc = "request", !.operation = operation,
                                  !.total = total, !.defect = defect,
                                  !.limit = Limit(operation),
                                  !.requests = <<0>>]
    /\ UNCHANGED <<coreVars, authVars, restVars>>

\* action_async returns or raises
PageResponse(response) ==
    /\ lister.pc = "request"
    /\ lister' =
         IF response = "error"
         THEN [lister EXCEPT !.pc = "done", !.raised = "ActionError"]
         ELSE IF response = "missing"
         THEN [lister EXCEPT !.pc = "done", !.missing = "collection",
                  !.raised = IF lister.operation \in
                                    {"list_namespaces", "list_layers"}
                             THEN "ActionResultError" ELSE "KeyError"]
         ELSE Consume([lister EXCEPT
                          !.page = ServerPage(lister.total, lister.offset,
                                              lister.limit),
                          !.position = 0])
    /\ Len(lister'.requests) <= MaxPages
    /\ UNCHANGED <<coreVars, authVars, restVars>>

\* the consumer asks for the next item
NextItem ==
    /\ lister.pc = "yield"
    /\ lister' = Consume(lister)
    /\ Len(lister'.requests) <= MaxPages
    /\ UNCHANGED <<coreVars, authVars, restVars>>

NextLister ==
    \/ \E operation \in {"list_functions", "get_function_results",
                         "list_namespaces", "list_layers",
                         "list_instances"} :
          \E total \in Totals(Limit(operation)) :
             \E defect \in Defects(total, Limit(operation)) :
                ListAsync(operation, total, defect)
    \/ \E response \in {"page", "missing", "error"} : PageResponse(response)
    \/ NextItem

SpecLister == Init /\ [][NextLister]_vars

(***************************************************************************)
(* An ErrorManager whose settings and chain are changed through its        *)
(* properties and methods, with values the setters reject included.        *)
(***************************************************************************)

NextSettings ==
    \/ \E h \in CallHandlers : AddHandler(h)
    \/ \E h \in CallHandlers : RemoveHandler(h)
    \/ ClearAllHandler
    \/ \E v \in BOOLEAN : SetEnabled(v)
    \/ \E v \in RetryInputs : SetMaxNumberOfRetries(v)
    \/ \E v \in BackoffInputs : SetMaxBackoffInterval(v)

SpecSettings == Init /\ [][NextSettings]_vars

(***************************************************************************)
(* Several _request_action_async calls on one client.  The calls are       *)
(* coroutines of one event loop: a call runs until it suspends at the HTTP *)
(* request or at the backoff sleep, and any other call may run then.  They *)
(* share the ErrorManager and last_response_metadata of the client; the    *)
(* retry counter is a local variable of each call.  A task is the record   *)
(* of a call with one more field, handled: the retry counts the call has   *)
(* passed to ErrorManager.handler, in order.                               *)
(***************************************************************************)
MutNewTask(ts, args) ==
    LET counts == {ts[t].error_retry_count :
                     t \in {u \in Tasks : ts[u].pc \in {"http", "sleep"}}}
    IN  [NoTask EXCEPT
           !.args = args,
           !.error_retry_count =
               IF counts = {} THEN 0
               ELSE CHOOSE n \in counts : \A m \in counts : m <= n]
\* line 518: the frame of a new call, error_retry_count: int = 0
NewTask(ts, args) == [NoTask EXCEPT !.args = args]

\* a caller awaits _request_action_async(...) while other calls are suspended
TaskRequestAction(t, args) ==
    /\ tasks[t].pc \in {"idle", "done"}
    /\ tasks' = [tasks EXCEPT ![t] = BeginAttempt(NewTask(tasks, args))]
    /\ UNCHANGED <<coreVars, authVars, listVars>>
    /\ UNCHANGED <<universal, product_call, proxies, proxy_call, signatures,
                   waitable, schedule>>
    /\ UNCHANGED futures

\* the HTTP exchange of task t completes (HttpResponse for one of the calls)
TaskHttpResponse(t, response, cap) ==
    /\ tasks[t].pc = "http"
    /\ LET c == tasks[t]
           out == AfterPost(c.args.action_id, response,
                            last_response_metadata)
           ended == [c EXCEPT !.finished = @ + 1, !.error = out.error,
                              !.verdict = Ignore]
       IN  /\ last_response_metadata' = out.metadata
           /\ IF out.kind = "return"
              THEN tasks' = [tasks EXCEPT ![t] =
                               [ended EXCEPT !.pc = "done",
                                             !.outcome = "returned",
                                             !.returned = out.returned,
                                             !.error_retry_count = @ + 1]]
              ELSE IF ~Intercepted(out.error)
              THEN tasks' = [tasks EXCEPT ![t] = ReRaise(ended, out.error)]
              ELSE IF RetriesExhausted(c.error_retry_count,
                                       max_number_of_retries)
              THEN tasks' = [tasks EXCEPT ![t] = ReRaise(ended, out.error)]
              ELSE \E oracle \in OraclesFor(error_handlers) :
                     LET h == handler(error_handlers, enabled, oracle,
                                      out.error, c.error_retry_count)
                         judged == [ended EXCEPT
                                      !.handler_calls = @ + 1,
                                      !.verdict = h.result,
                                      !.handled =
                                          Append(@, c.error_retry_count)]
                         next == ActOnVerdict(judged, h.result, JitterMin)
                     IN  /\ h.raised = "None"
                         /\ next.attempts <= cap
                         /\ tasks' = [tasks EXCEPT ![t] = next]
    /\ UNCHANGED <<managerVars, handler_call, call, try_call>>
    /\ UNCHANGED <<authVars, listVars, universal, product_call, proxies,
                   proxy_call>>
    /\ UNCHANGED <<signatures, waitable, schedule, futures>>

\* the asyncio.sleep of task t returns
TaskWake(t, cap) ==
    /\ tasks[t].pc = "sleep"
    /\ tasks[t].attempts < cap
    /\ tasks' = [tasks EXCEPT ![t] = NextAttempt(tasks[t])]
    /\ UNCHANGED <<coreVars, authVars, listVars>>
    /\ UNCHANGED <<universal, product_call, proxies, proxy_call, signatures,
                   waitable, schedule>>
    /\ UNCHANGED futures

\* the arguments of the tasks' calls
TaskArgs == [product_id |-> "scf", action_id |-> "Invoke",
             action_version |-> "2018-04-16"]

NextTasks ==
    \/ AddHandlerRaised(error_handlers, 1) = "None" /\ AddHandler(1)
    \/ \E v \in {1, MaxRetries} : SetMaxNumberOfRetries(v)
    \/ \E t \in Tasks : TaskRequestAction(t, TaskArgs)
    \* a transport failure, an error that is not retried and a success
    \/ \E t \in Tasks,
          response \in
              {TransportFailure,
               JsonResponse(TRUE, TRUE, <<"ResourceNotFound">>, <<"message">>,
                            <<"request-1">>),
               JsonResponse(TRUE, FALSE, <<>>, <<>>, <<"request-1">>)} :
          TaskHttpResponse(t, response, MaxAttempts)
    \/ \E t \in Tasks : TaskWake(t, MaxAttempts)

SpecTasks == Init /\ [][NextTasks]_vars

(***************************************************************************)
(* client.py: UniversalClient.action_for_product_async and                 *)
(* UniversalClient.action_for_product.  Both hand their arguments to       *)
(* _request_action_async; what is modelled is the host name the request is *)
(* signed for (request_hostname of generate_and_signature) and the host of *)
(* the URL it is posted to.                                                *)
(***************************************************************************)
ProductNames == {"scf", "cvm", "tcb"}

\* Python's `not access_endpoint`
NoEndpoint(access_endpoint) ==
    access_endpoint = <<>> \/ access_endpoint = <<"">>

\* the access_endpoint argument each variant passes to _request_action_async
\* (lines 706-709 and 747-749)
PassedEndpoint(variant, product_id, access_endpoint) ==
    IF variant = "action_for_product_async"
    THEN IF NoEndpoint(access_endpoint) THEN <<EndpointOf(product_id)>>
         ELSE access_endpoint
    ELSE access_endpoint

\* lines 415 and 424-426 of _try_request_action_async:
\* self.__access_endpoint if not access_endpoint else access_endpoint
RequestHost(bound, access_endpoint) ==
    IF NoEndpoint(access_endpoint) THEN bound ELSE access_endpoint[1]

\* one call of a variant on the client
ActionForProduct(variant, product_id, access_endpoint) ==
    /\ LET passed == PassedEndpoint(variant, product_id, access_endpoint)
           host == RequestHost(universal.access_endpoint, passed)
       IN  product_call' = [called |-> TRUE, variant |-> variant,
                            product_id |-> product_id,
                            access_endpoint |-> access_endpoint,
                            bound |-> universal.access_endpoint,
                            request_hostname |-> host, url_host |-> host,
                            signature_product_id |-> product_id]
    /\ UNCHANGED <<coreVars, authVars, listVars, tasks, proxies, proxy_call>>
    /\ UNCHANGED <<signatures, waitable, schedule, futures>>
    /\ UNCHANGED universal

\* UniversalClient.set_product_id with a non-empty string
SetProductId(product_id) ==
    /\ universal' = NewUniversalClient(product_id)
    /\ UNCHANGED <<coreVars, authVars, listVars, tasks, proxies, proxy_call>>
    /\ UNCHANGED <<signatures, waitable, schedule, futures>>
    /\ UNCHANGED product_call

\* BaseClient.set_access_endpoint with a non-empty string
SetAccessEndpoint(access_endpoint) ==
    /\ universal' = [universal EXCEPT !.access_endpoint = access_endpoint]
    /\ UNCHANGED <<coreVars, authVars, listVars, tasks, proxies, proxy_call>>
    /\ UNCHANGED <<signatures, waitable, schedule, futures>>
    /\ UNCHANGED product_call

NextUniversal ==
    \/ \E variant \in {"action_for_product_async", "action_for_product"},
          product_id \in ProductNames,
          access_endpoint \in {<<>>, <<"">>, <<"api.example.com">>} :
          ActionForProduct(variant, product_id, access_endpoint)
    \/ \E product_id \in ProductNames \ {"tcb"} : SetProductId(product_id)
    \/ SetAccessEndpoint("proxy.example.com")

SpecUniversal == Init /\ [][NextUniversal]_vars

(***************************************************************************)
(* proxies.py: Proxies.  The object is the dictionary __proxies (servers)  *)
(* and the four public attributes of the active proxy server.  Each method *)
(* is an operator whose value is the exception raised ("None" when the     *)
(* method returns) and the object afterwards.                              *)
(***************************************************************************)
ProxyNameArgs == {"", "a", "b", "c"}

ProxyResult(raised, object) == [raised |-> raised, object |-> object]

\* lines 86-91
use_proxy_server(p, proxy_name) ==
    IF proxy_name \notin DOMAIN p.servers
    THEN ProxyResult("NotFoundError", p)
    ELSE ProxyResult("None",
             [p EXCEPT !.proxy_type = p.servers[proxy_name].type,
                       !.proxy_endpoint = p.servers[proxy_name].endpoint,
                       !.proxy_auth = p.servers[proxy_name].auth,
                       !.proxy_name = proxy_name])

\* lines 114-140
add_proxy_server(p, proxy_name, proxy_type, proxy_endpoint, proxy_auth) ==
    IF proxy_name = "" \/ proxy_type = "" \/ proxy_endpoint = ""
    THEN ProxyResult("ValueError", p)
    ELSE IF proxy_auth \in {"str", "no-username", "no-password"}
    THEN ProxyResult("ValueError", p)
    ELSE IF proxy_name \in DOMAIN p.servers
    THEN ProxyResult("ExistedError", p)
    ELSE ProxyResult("None",
             [p EXCEPT !.servers =
                 [n \in DOMAIN p.servers \cup {proxy_name} |->
                    IF n = proxy_name
                    THEN ProxyServer(proxy_type, proxy_endpoint, proxy_auth)
                    ELSE p.servers[n]]])

MutRemoveProxyServer(p, proxy_name) ==
    IF proxy_name = "" THEN ProxyResult("ValueError", p)
    ELSE IF proxy_name \notin DOMAIN p.servers
    THEN ProxyResult("NotFoundError", p)
    ELSE ProxyResult("None",
             [p EXCEPT !.servers = [n \in DOMAIN p.servers \ {proxy_name} |->
                                      p.servers[n]]])
\* lines 156-165
remove_proxy_server(p, proxy_name) ==
    IF proxy_name = "" THEN ProxyResult("ValueError", p)
    ELSE IF proxy_name = p.proxy_name THEN ProxyResult("OccupiedError", p)
    ELSE IF proxy_name \notin DOMAIN p.servers
    THEN ProxyResult("NotFoundError", p)
    ELSE ProxyResult("None",
             [p EXCEPT !.servers = [n \in DOMAIN p.servers \ {proxy_name} |->
                                      p.servers[n]]])

\* the calls of the three methods: the object afterwards and what the call
\* raised
UseProxyServer(proxy_name) ==
    /\ LET result == use_proxy_server(proxies, proxy_name)
       IN  /\ proxies' = result.object
           /\ proxy_call' = [method |-> "use_proxy_server",
                             raised |-> result.raised]
    /\ UNCHANGED <<coreVars, authVars, listVars, tasks, universal,
                   product_call>>
    /\ UNCHANGED <<signatures, waitable, schedule, futures>>

AddProxyServer(proxy_name, proxy_type, proxy_endpoint, proxy_auth) ==
    /\ LET result == add_proxy_server(proxies, proxy_name, proxy_type,
                                      proxy_endpoint, proxy_auth)
       IN  /\ proxies' = result.object
           /\ proxy_call' = [method |-> "add_proxy_server",
                             raised |-> result.raised]
    /\ UNCHANGED <<coreVars, authVars, listVars, tasks, universal,
                   product_call>>
    /\ UNCHANGED <<signatures, waitable, schedule, futures>>

RemoveProxyServer(proxy_name) ==
    /\ LET result == remove_proxy_server(proxies, proxy_name)
       IN  /\ proxies' = result.object
           /\ proxy_call' = [method |-> "remove_proxy_server",
                             raised |-> result.raised]
    /\ UNCHANGED <<coreVars, authVars, listVars, tasks, universal,
                   product_call>>
    /\ UNCHANGED <<signatures, waitable, schedule, futures>>

NextProxies ==
    \/ \E proxy_name \in ProxyNameArgs : UseProxyServer(proxy_name)
    \* proxy_auth: None, a str, a dict without 'username', a dict without
    \* 'password', a dict with both
    \/ \E proxy_name \in ProxyNameArgs,
          proxy_type \in {"", "http", "https"},
          proxy_endpoint \in {"", "host-1:8080"},
          proxy_auth \in {"None", "str", "no-username", "no-password",
                          "auth-1"} :
          AddProxyServer(proxy_name, proxy_type, proxy_endpoint, proxy_auth)
    \/ \E proxy_name \in ProxyNameArgs : RemoveProxyServer(proxy_name)

SpecProxies == Init /\ [][NextProxies]_vars

(***************************************************************************)
(* The credentials of a client during a _request_action_async call.  The   *)
(* call and everything that touches the credentials run on one event loop: *)
(* generate_and_signature has no suspension, so it is one step with the    *)
(* start of the attempt, and set_secret_info and changes of os.environ     *)
(* happen while the call is suspended.  signatures holds one record for    *)
(* each generate_and_signature call of the running call: the methods it    *)
(* called in order, the credential set that was current when it was        *)
(* called (the fields of a Credentials object, the environment variables   *)
(* of an EnvironmentalCredentials object), and the set it used for the     *)
(* Authorization header and the token.                                     *)
(***************************************************************************)

RotatedSecret == SecretInfo(Str("id-1"), Str("key-1"), Str("token-2"))

\* refresh_secret_info of the class of the object, as one step: what it
\* raised and the object afterwards
refresh_secret_info(object, env) ==
    IF object.class = "Credentials"
    THEN [raised |-> "None", object |-> object]
    ELSE LET r == RefreshFromEnviron(env)
         IN  IF r.raised # "None"
             THEN [raised |-> r.raised, object |-> object]
             ELSE [raised |-> "None",
                   object |-> [object EXCEPT !.secret = r.args]]

MutGenerateAndSignature(object, env) ==
    [raised |-> "None", object |-> object,
     calls |-> <<"generate_canonical_content", "generate_signature_content",
                 "signature", "generate_auth_content">>,
     used |-> object.secret]
\* credentials.py 336-351 as one step
generate_and_signature(object, env) ==
    LET refreshed == refresh_secret_info(object, env)
    IN  IF refreshed.raised # "None"
        THEN [raised |-> refreshed.raised, object |-> refreshed.object,
              calls |-> <<"refresh_secret_info">>,
              used |-> SecretInfo(PyNone, PyNone, PyNone)]
        ELSE [raised |-> "None", object |-> refreshed.object,
              calls |-> <<"refresh_secret_info",
                          "generate_canonical_content",
                          "generate_signature_content", "signature",
                          "generate_auth_content">>,
              used |-> refreshed.object.secret]

\* the credential set that is current for the object
CurrentSecret(object, env) ==
    IF object.class = "Credentials" THEN object.secret
    ELSE RefreshFromEnviron(env).args

\* an attempt of the call c with valid arguments begins: the signature,
\* recorded after those of the earlier attempts (log), then the POST.  An
\* exception of generate_and_signature is none of the three the loop
\* catches: it ends the call.
BeginSignedAttempt(c, log) ==
    LET signed == generate_and_signature(credentials, environ)
    IN  /\ credentials' = signed.object
        /\ signatures' = Append(log,
                                [calls |-> signed.calls,
                                 raised |-> signed.raised,
                                 current |-> CurrentSecret(credentials,
                                                           environ),
                                 used |-> signed.used])
        /\ call' = IF signed.raised = "None" THEN BeginAttempt(c)
                   ELSE [c EXCEPT !.pc = "done", !.attempts = @ + 1,
                                  !.finished = @ + 1, !.sign_calls = @ + 1,
                                  !.error = PlainError(signed.raised),
                                  !.outcome = "raised",
                                  !.raised = PlainError(signed.raised),
                                  !.error_retry_count = @ + 1]

\* a caller awaits _request_action_async with valid arguments
SignedRequestAction ==
    /\ call.pc \in {"idle", "done"}
    /\ BeginSignedAttempt([NoCall EXCEPT !.args = TaskArgs], <<>>)
    /\ UNCHANGED <<managerVars, handler_call, last_response_metadata,
                   try_call>>
    /\ UNCHANGED <<environ, set_call, sign_call>>
    /\ UNCHANGED <<listVars, tasks, universal, product_call, proxies,
                   proxy_call, waitable>>
    /\ UNCHANGED <<schedule, futures>>

\* asyncio.sleep returns: the finally clause, then the next attempt
SignedWake(cap) ==
    /\ call.pc = "sleep"
    /\ call.attempts < cap
    /\ BeginSignedAttempt([call EXCEPT !.error_retry_count = @ + 1],
                          signatures)
    /\ UNCHANGED <<managerVars, handler_call, last_response_metadata,
                   try_call>>
    /\ UNCHANGED <<environ, set_call, sign_call>>
    /\ UNCHANGED <<listVars, tasks, universal, product_call, proxies,
                   proxy_call, waitable>>
    /\ UNCHANGED <<schedule, futures>>

\* while the call is suspended the program calls set_secret_info with a
\* valid set
RotateSecretInfo(args) ==
    /\ credentials' = [credentials EXCEPT !.secret = args]
    /\ UNCHANGED <<coreVars, listVars, restVars>>
    /\ UNCHANGED <<environ, set_call, sign_call>>

NextSigned ==
    \/ SignedRequestAction
    \* a transport failure, an error that is retried and a success
    \/ \E response \in
              {TransportFailure,
               JsonResponse(TRUE, TRUE, <<"InternalError">>, <<"message">>,
                            <<"request-1">>),
               JsonResponse(TRUE, FALSE, <<>>, <<>>, <<"request-1">>)} :
          HttpResponse(response, MaxRetries + 1)
    \/ SignedWake(MaxRetries + 1)
    \/ \E args \in {OldSecret, NewSecret, RotatedSecret} :
          RotateSecretInfo(args)
    \* the environment as it was, with new values, with the token rotated,
    \* and without secret id
    \/ \E env \in {OldEnviron, NewEnviron,
                   Environ(<<"id-1">>, <<"key-1">>, <<"token-2">>),
                   Environ(<<>>, <<"key-2">>, <<>>)} :
          SetEnviron(env)

SpecSigned == InitCredentials /\ [][NextSigned]_vars

(***************************************************************************)
(* waitable.py: OperationWaitable.wait_for_done_async.  A call sets the    *)
(* status to Waiting and suspends in asyncio.wait_for; it resumes with the *)
(* value of the wait handler, with asyncio.TimeoutError, or with the       *)
(* exception of the wait handler.  Calls on the same object share          *)
(* __wait_status and __wait_result.                                        *)
(***************************************************************************)

\* Waitable.has_done
has_done(object) == object.status = Completed

\* lines 214-218: the argument check, then self._set_status(Waiting)
WaitForDoneAsync(w, max_wait_seconds) ==
    /\ waitable.waits[w] # "waiting"
    /\ waitable' = IF max_wait_seconds = "str"
                   THEN [waitable EXCEPT !.waits[w] = "ValueError"]
                   ELSE [waitable EXCEPT !.status = Waiting,
                                         !.waits[w] = "waiting"]
    /\ UNCHANGED <<coreVars, authVars, listVars, tasks, universal,
                   product_call>>
    /\ UNCHANGED <<proxies, proxy_call, signatures, schedule, futures>>

\* the wait handler returned: set_result, _set_status(Completed), return
WaitHandlerReturns(w, result) ==
    /\ waitable.waits[w] = "waiting"
    /\ waitable' = [waitable EXCEPT !.result = <<result>>,
                                    !.status = Completed,
                                    !.waits[w] = "returned",
                                    !.completed = TRUE]
    /\ UNCHANGED <<coreVars, authVars, listVars, tasks, universal,
                   product_call>>
    /\ UNCHANGED <<proxies, proxy_call, signatures, schedule, futures>>

\* asyncio.wait_for raised asyncio.TimeoutError (lines 225-227) or the wait
\* handler raised (lines 228-230): _set_status(Created), then raise
WaitRaises(w, raised) ==
    /\ waitable.waits[w] = "waiting"
    /\ waitable' = [waitable EXCEPT !.status = Created,
                                    !.waits[w] = raised]
    /\ UNCHANGED <<coreVars, authVars, listVars, tasks, universal,
                   product_call>>
    /\ UNCHANGED <<proxies, proxy_call, signatures, schedule, futures>>

NextWaitable ==
    \/ \E w \in Waiters, max_wait_seconds \in {"None", "float", "str"} :
          WaitForDoneAsync(w, max_wait_seconds)
    \/ \E w \in Waiters, result \in {"result-1", "result-2"} :
          WaitHandlerReturns(w, result)
    \/ \E w \in Waiters, raised \in {"TimeoutError", "Error"} :
          WaitRaises(w, raised)

SpecWaitable == Init /\ [][NextWaitable]_vars

(***************************************************************************)
(* functions/__init__.py: Client.schedule_invoke, FunctionSchedule and     *)
(* Client.run_schedule.  A task is created by schedule_invoke (the created *)
(* callback counts it), started by the timer (_invoke_callback) and        *)
(* finished when its invoke_async task is done (_completed_callback).      *)
(***************************************************************************)
ScheduleIds == 1..MaxSchedules

\* Client._schedule_completed_callback (lines 744-749), and the finally
\* clause of run_schedule once the event loop has been stopped
schedule_completed_callback(s) ==
    LET count == s.count - 1
    IN  [s EXCEPT !.count = count,
                  !.waited = IF s.waited /\ count = 0 THEN FALSE ELSE @]

\* schedule_invoke(..., invoked_callback): FunctionSchedule.__init__ arms
\* the timer and calls Client._schedule_created_callback
ScheduleInvoke(t, invoked_callback) ==
    /\ schedule.tasks[t].state = "none"
    /\ schedule' = [schedule EXCEPT
                      !.count = @ + 1,
                      !.tasks[t] = [NoSchedule EXCEPT
                                      !.state = "created",
                                      !.invoked_callback = invoked_callback]]
    /\ UNCHANGED <<coreVars, authVars, listVars, tasks, universal,
                   product_call>>
    /\ UNCHANGED <<proxies, proxy_call, signatures, waitable, futures>>

\* the timer fires: FunctionSchedule._invoke_callback creates the task
InvokeCallback(t) ==
    /\ schedule.tasks[t].state = "created"
    /\ schedule' = [schedule EXCEPT !.tasks[t].state = "running"]
    /\ UNCHANGED <<coreVars, authVars, listVars, tasks, universal,
                   product_call>>
    /\ UNCHANGED <<proxies, proxy_call, signatures, waitable, futures>>

\* the invoke_async task is done: FunctionSchedule._completed_callback
\* (lines 219-228).  callback_raises: the invoked callback of the user
\* raises.
CompletedCallback(t, outcome, callback_raises) ==
    /\ schedule.tasks[t].state = "running"
    /\ LET task == [schedule.tasks[t] EXCEPT !.state = "finished",
                                             !.outcome = outcome]
       IN  IF outcome = "exception" /\ ~task.invoked_callback
           THEN schedule' = [schedule EXCEPT
                               !.tasks[t] = [task EXCEPT
                                               !.raised = "exception"]]
           ELSE schedule' =
                  [schedule_completed_callback(schedule) EXCEPT
                     !.tasks[t] =
                         [task EXCEPT
                            !.invoked_calls =
                                IF task.invoked_callback THEN @ + 1 ELSE @,
                            !.completed_calls = @ + 1,
                            !.raised =
                                IF task.invoked_callback /\ callback_raises
                                THEN "callback" ELSE "None"]]
    /\ UNCHANGED <<coreVars, authVars, listVars, tasks, universal,
                   product_call>>
    /\ UNCHANGED <<proxies, proxy_call, signatures, waitable, futures>>

\* FunctionSchedule.cancel (lines 238-244): StatusError once the task has
\* started; before that self.__invoke_handle is still None (the handle
\* call_later returns is not kept), so .cancel() raises AttributeError
Cancel(t) ==
    /\ schedule.tasks[t].state # "none"
    /\ schedule' = [schedule EXCEPT
                      !.raised = IF schedule.tasks[t].state = "created"
                                 THEN "AttributeError" ELSE "StatusError"]
    /\ UNCHANGED <<coreVars, authVars, listVars, tasks, universal,
                   product_call>>
    /\ UNCHANGED <<proxies, proxy_call, signatures, waitable, futures>>

\* Client.run_schedule is called while the event loop is not running
RunSchedule ==
    /\ ~schedule.waited
    /\ schedule' = IF schedule.count < 1
                   THEN [schedule EXCEPT !.raised = "StatusError"]
                   ELSE [schedule EXCEPT !.raised = "None", !.waited = TRUE]
    /\ UNCHANGED <<coreVars, authVars, listVars, tasks, universal,
                   product_call>>
    /\ UNCHANGED <<proxies, proxy_call, signatures, waitable, futures>>

NextSchedule ==
    \/ \E t \in ScheduleIds, invoked_callback \in BOOLEAN :
          ScheduleInvoke(t, invoked_callback)
    \/ \E t \in ScheduleIds : InvokeCallback(t)
    \/ \E t \in ScheduleIds, outcome \in {"result", "exception"},
          callback_raises \in BOOLEAN :
          CompletedCallback(t, outcome, callback_raises)
    \/ \E t \in ScheduleIds : Cancel(t)
    \/ RunSchedule

SpecSchedule == Init /\ [][NextSchedule]_vars

(***************************************************************************)
(* functions/__init__.py: FunctionResultFuture (lines 58-135)              *)
(***************************************************************************)
\* the exceptions get_function_result_by_request_id_async hands to the
\* done callback
FetchErrors == {"NotFoundError", "ActionResultError", "RequestError"}

\* asyncio.Future.set_exception and set_result: a pending future takes
\* the value; a future that is done raises InvalidStateError and keeps
\* what it has.
FutureSetException(f, e) ==
    IF f.state = "pending"
    THEN [f EXCEPT !.state = "exception", !.exception = <<e>>]
    ELSE [f EXCEPT !.raised = "InvalidStateError"]

FutureSetResult(f, r) ==
    IF f.state = "pending"
    THEN [f EXCEPT !.state = "result", !.result = <<r>>]
    ELSE [f EXCEPT !.raised = "InvalidStateError"]

\* lines 97-108: _complete_callback without a result future starts a fetch
\* of the function result and registers itself as its done callback.
StartFetch(f) ==
    [f EXCEPT !.pc = "fetching", !.fetches = @ + 1]

\* lines 131-133: __await__ calls _complete_callback(None).
AwaitFuture(f) ==
    /\ futures[f].pc = "new"
    /\ futures' = [futures EXCEPT ![f] = StartFetch(@)]
    /\ UNCHANGED <<coreVars, authVars, listVars>>
    /\ UNCHANGED <<tasks, universal, product_call, proxies, proxy_call,
                   signatures>>
    /\ UNCHANGED <<waitable, schedule>>

\* _complete_callback(result_future) as the done callback of a fetch that
\* raised e (lines 109-116).  NotFoundError schedules _complete_callback
\* again after one second and leaves the future pending; any other
\* exception is set on the future.
FetchRaised(f, e) ==
    /\ futures[f].pc = "fetching"
    /\ e = "NotFoundError" => futures[f].fetches < MaxFetches
    /\ futures' =
           [futures EXCEPT ![f] =
               IF e = "NotFoundError"
               THEN [@ EXCEPT !.pc = "timer", !.fetched = e]
               ELSE [FutureSetException(@, e) EXCEPT !.pc = "idle",
                                                     !.fetched = e]]
    /\ UNCHANGED <<coreVars, authVars, listVars>>
    /\ UNCHANGED <<tasks, universal, product_call, proxies, proxy_call>>
    /\ UNCHANGED <<signatures, waitable, schedule>>

\* _complete_callback(result_future) as the done callback of a fetch that
\* returned r (lines 118-129).  A result that is not successful sets
\* InvokeError on the future (lines 120-124), whose constructor raises
\* ValueError for an empty error_message (errors.py lines 38-39), and the
\* code goes on to line 126, where set_result is called as well.  An
\* exception raised on the way leaves the callback.
FetchReturned(f, r) ==
    /\ futures[f].pc = "fetching"
    /\ futures' =
           [futures EXCEPT ![f] =
               LET g == [@ EXCEPT !.pc = "idle",
                                  !.fetched = IF r.is_successful
                                              THEN "successful"
                                              ELSE "unsuccessful"]
                   inferred == [inferred |-> r.return_result]
               IN  IF r.is_successful
                   THEN FutureSetResult(g, inferred)
                   ELSE IF r.return_result = ""
                        THEN [g EXCEPT !.raised = "ValueError"]
                        ELSE FutureSetResult(
                                 FutureSetException(g, "InvokeError"),
                                 inferred)]
    /\ UNCHANGED <<coreVars, authVars, listVars>>
    /\ UNCHANGED <<tasks, universal, product_call, proxies, proxy_call>>
    /\ UNCHANGED <<signatures, waitable, schedule>>

\* line 112: the call_later(1, self._complete_callback) timer fires and
\* _complete_callback runs without a result future.
RetryTimerFires(f) ==
    /\ futures[f].pc = "timer"
    /\ futures' = [futures EXCEPT ![f] = StartFetch(@)]
    /\ UNCHANGED <<coreVars, authVars, listVars>>
    /\ UNCHANGED <<tasks, universal, product_call, proxies, proxy_call>>
    /\ UNCHANGED <<signatures, waitable, schedule>>

NextFuture ==
    \E f \in Futures :
        \/ AwaitFuture(f)
        \/ \E e \in FetchErrors : FetchRaised(f, e)
        \* the dict of the function log: 'return_result' is its RetMsg, any
        \* string, the empty one included
        \/ \E r \in [is_successful : BOOLEAN, return_result : {"", "10"}] :
              FetchReturned(f, r)
        \/ RetryTimerFires(f)

SpecFuture == Init /\ [][NextFuture]_vars

(***************************************************************************)
(* Properties                                                              *)
(***************************************************************************)
\* the error ids the built-in handler is documented to back off on
TransientIds == {"AuthFailure.SignatureExpire", "InternalError",
                 "LimitExceeded", "RequestLimitExceeded",
                 "ResourceInsufficient"}

RetryableKinds == {"RequestError", "ResponseError", "ActionError"}

\* the ValueErrors of the argument checks of _try_request_action_async
ValidationErrors ==
    {ValueError("<product_id> value invalid"),
     ValueError("<action_id> value invalid"),
     ValueError("<action_version> value invalid")}

\* C1: Retry bound.  A call made with max_number_of_retries = N > 0 (and N
\* not reassigned while the call runs), whose attempts all failed with
\* RequestError, ResponseError or ActionError and whose every verdict was
\* Backoff, has made exactly N + 1 attempts (N sleeps, N consultations of
\* the chain) when it ends, and it ends by raising the error of its last
\* attempt unchanged.
RetryBound ==
    (/\ call.pc = "done"
     /\ call.error.kind \in RetryableKinds
     /\ call.handler_calls = call.sleeps
     /\ ~call.retries_changed
     /\ max_number_of_retries > 0)
    => (/\ call.attempts = max_number_of_retries + 1
        /\ call.post_calls = max_number_of_retries + 1
        /\ call.sleeps = max_number_of_retries
        /\ call.outcome = "raised"
        /\ call.raised = call.error)

RetryBoundWitness ==
    /\ call.pc = "done"
    /\ call.outcome = "raised"
    /\ call.raised.kind \in RetryableKinds
    /\ ~call.retries_changed
    /\ max_number_of_retries = MaxRetries
    /\ call.sleeps = MaxRetries
    /\ call.handler_calls = MaxRetries
    /\ call.attempts = MaxRetries + 1

\* C2: Handler chain short-circuit.  An enabled ErrorManager.handler invokes
\* the registered handlers in registration order, stops at the first one
\* whose result is not Ignore, returns that result, and invokes no handler
\* registered after it.
HandlerShortCircuit ==
    (handler_call.called /\ enabled) =>
        LET inv == handler_call.invoked
            n == Len(inv)
        IN  /\ handler_call.raised = "None"
            /\ n <= Len(error_handlers)
            /\ \A i \in 1..n : inv[i].handler = error_handlers[i]
            /\ \A i \in 1..(n - 1) : inv[i].result = Ignore
            /\ n < Len(error_handlers) => (n > 0 /\ inv[n].result # Ignore)
            /\ (n > 0 /\ inv[n].result # Ignore)
                   => handler_call.result = inv[n].result

HandlerShortCircuitWitness ==
    /\ handler_call.called
    /\ enabled
    /\ Len(error_handlers) = 3
    /\ Len(handler_call.invoked) = 2
    /\ handler_call.invoked[1].result = Ignore
    /\ handler_call.invoked[2].result = Backoff
    /\ handler_call.result = Backoff

\* C3: Default verdict.  ErrorManager.handler returns Throw when the manager
\* is disabled (and then invokes no handler, whatever the chain holds), when
\* the chain is empty, and when every handler of the chain returned Ignore.
ThrowByDefault ==
    handler_call.called =>
        /\ handler_call.raised = "None"
        /\ ~enabled => (/\ handler_call.result = Throw
                        /\ handler_call.invoked = <<>>)
        /\ error_handlers = <<>> => handler_call.result = Throw
        /\ (\A i \in 1..Len(handler_call.invoked) :
                handler_call.invoked[i].result = Ignore)
               => handler_call.result = Throw

ThrowByDefaultWitness ==
    /\ handler_call.called
    /\ ~enabled
    /\ Len(error_handlers) >= 2
    /\ handler_call.error_instance.kind = "RequestError"
    /\ handler_call.invoked = <<>>
    /\ handler_call.result = Throw

\* C4: Retry and Throw verdicts.  In the step in which the chain is
\* consulted, a Retry verdict starts the next attempt with no sleep, and a
\* Throw verdict ends the call by raising the error just judged, with no
\* further attempt.
RetryAndThrowVerdicts ==
    [][(call'.handler_calls = call.handler_calls + 1) =>
        /\ (call'.verdict = Retry) =>
               (/\ call'.pc = "http"
                /\ call'.attempts = call.attempts + 1
                /\ call'.post_calls = call.post_calls + 1
                /\ call'.sleeps = call.sleeps
                /\ call'.backoff_ms = 0)
        /\ (call'.verdict = Throw) =>
               (/\ call'.pc = "done"
                /\ call'.outcome = "raised"
                /\ call'.raised = call'.error
                /\ call'.raised.kind \in RetryableKinds
                /\ call'.attempts = call.attempts
                /\ call'.post_calls = call.post_calls
                /\ call'.sleeps = call.sleeps)]_vars

RetryAndThrowVerdictsWitness ==
    /\ call.pc = "http"
    /\ call.verdict = Retry
    /\ call.handler_calls = 1
    /\ call.attempts = 2
    /\ call.sleeps = 0

\* C5: Backoff delay.  A sleep that follows a Backoff verdict given at
\* attempt count n lasts min(1000 * 2^n + j, 1000 * max_backoff_interval)
\* milliseconds for some j in 1..1000, so it never exceeds
\* max_backoff_interval (64 seconds by default) and, below that cap, it is
\* longer than 2^n seconds.
BackoffDelayBound ==
    (call.pc = "sleep") =>
        LET n == call.error_retry_count
        IN  /\ call.verdict = Backoff
            /\ \E j \in 1..1000 :
                   call.backoff_ms =
                       Min(1000 * (2 ^ n) + j, 1000 * max_backoff_interval)
            /\ max_backoff_interval = 64
            /\ call.backoff_ms <= 1000 * max_backoff_interval
            /\ call.backoff_ms < 1000 * max_backoff_interval
                   => call.backoff_ms > 1000 * (2 ^ n)

BackoffDelayBoundWitness ==
    /\ call.pc = "sleep"
    /\ call.error_retry_count >= 6
    /\ call.sleeps = call.error_retry_count + 1
    /\ call.backoff_ms = 64000

\* C6: Built-in handler policy.  The built-in handler returns Backoff for a
\* RequestError, for a ResponseError with status code >= 500 and for an
\* ActionError whose error id is in the transient set; for every other
\* error it returns Ignore.
BuiltinPolicy ==
    \A i \in 1..Len(handler_call.invoked) :
        (handler_call.invoked[i].handler = BuiltinHandler) =>
            LET e == handler_call.error_instance
                transient ==
                    \/ e.kind = "RequestError"
                    \/ e.kind = "ResponseError" /\ e.status_code >= 500
                    \/ e.kind = "ActionError" /\ e.error_id \in TransientIds
            IN  handler_call.invoked[i].result =
                    IF transient THEN Backoff ELSE Ignore

BuiltinPolicyWitness ==
    /\ handler_call.called
    /\ handler_call.error_instance.kind = "ActionError"
    /\ handler_call.error_instance.error_id = "LimitExceeded"
    /\ Len(handler_call.invoked) = 2
    /\ handler_call.invoked[2] =
           [handler |-> BuiltinHandler, result |-> Backoff]

\* C7: Non-transient ActionError.  With only the built-in handler
\* registered, an attempt that fails with an ActionError whose code is not
\* in the transient set ends the call at once: that ActionError is raised,
\* no sleep and no further attempt follow, so a call whose first attempt
\* fails this way has made exactly one attempt.
NonTransientNotRetried ==
    [][(/\ call.pc = "http"
        /\ call'.finished = call.finished + 1
        /\ error_handlers = <<BuiltinHandler>>
        /\ call'.error.kind = "ActionError"
        /\ call'.error.error_id \notin TransientIds)
       => (/\ call'.pc = "done"
           /\ call'.outcome = "raised"
           /\ call'.raised = call'.error
           /\ call'.attempts = call.attempts
           /\ call'.post_calls = call.post_calls
           /\ call'.sleeps = call.sleeps
           /\ call.attempts = 1 => (call'.attempts = 1 /\ call'.sleeps = 0))
      ]_vars

NonTransientNotRetriedWitness ==
    /\ error_handlers = <<BuiltinHandler>>
    /\ enabled
    /\ call.pc = "done"
    /\ call.outcome = "raised"
    /\ call.raised.kind = "ActionError"
    /\ call.raised.error_id = "ResourceNotFound"
    /\ call.handler_calls = 1
    /\ call.attempts = 1
    /\ call.sleeps = 0

\* C8: Only RequestError, ResponseError and ActionError are intercepted.
\* The chain is consulted for these three kinds only.  An attempt that ends
\* with any other exception ends the call in the same step: the exception
\* reaches the caller, the chain is not consulted, nothing sleeps and no
\* further attempt is made.  A call with arguments the validation rejects
\* ends with that ValueError after exactly one attempt, with no signature
\* computed and no HTTP request sent.
OnlyThreeKindsIntercepted ==
    /\ [][(call'.handler_calls = call.handler_calls + 1)
             => call'.error.kind \in RetryableKinds]_vars
    /\ [][(/\ call.pc = "http"
           /\ call'.finished = call.finished + 1
           /\ call'.error.kind \notin RetryableKinds \cup {"None"})
          => (/\ call'.pc = "done"
              /\ call'.outcome = "raised"
              /\ call'.raised = call'.error
              /\ call'.handler_calls = call.handler_calls
              /\ call'.sleeps = call.sleeps
              /\ call'.attempts = call.attempts
              /\ call'.post_calls = call.post_calls)]_vars
    /\ [](\/ call.pc = "idle"
          \/ ValidateArgs(call.args) = NoError
          \/ /\ call.pc = "done"
             /\ call.outcome = "raised"
             /\ call.raised = ValidateArgs(call.args)
             /\ call.raised \in ValidationErrors
             /\ call.attempts = 1
             /\ call.handler_calls = 0
             /\ call.sleeps = 0
             /\ call.sign_calls = 0
             /\ call.post_calls = 0)

OnlyThreeKindsInterceptedWitness ==
    /\ call.pc = "done"
    /\ call.outcome = "raised"
    /\ call.raised = ValueError("<action_id> value invalid")
    /\ call.attempts = 1
    /\ call.post_calls = 0

\* C9: Status classification.  Every HTTP response whose status is not 200
\* raises ResponseError carrying that status, and RequestError is raised
\* only when the transport failed.
StatusClassification ==
    (try_call.done /\ try_call.sent) =>
        LET r == try_call.response
        IN  /\ (r.transport_ok /\ r.status # 200)
                   => (/\ try_call.kind = "raise"
                       /\ try_call.error.kind = "ResponseError"
                       /\ try_call.error.status_code = r.status)
            /\ (try_call.error.kind = "RequestError") => ~r.transport_ok

\* C10, as stated: every parsed response whose Response object contains an
\* Error object raises ActionError built from the requested action,
\* Error.Code, Error.Message and Response.RequestId, and returns nothing.
EveryErrorEnvelopeRaisesActionError ==
    (/\ try_call.done /\ try_call.sent
     /\ try_call.response.transport_ok /\ try_call.response.status = 200
     /\ try_call.response.json_ok /\ try_call.response.has_response
     /\ try_call.response.has_error)
    => (/\ try_call.kind = "raise"
        /\ try_call.returned = <<>>
        /\ try_call.error.kind = "ActionError"
        /\ try_call.error.action_id = try_call.args.action_id
        /\ <<try_call.error.error_id>> = try_call.response.code
        /\ <<try_call.error.error_message>> = try_call.response.message
        /\ <<try_call.error.request_id>> = try_call.response.request_id)

\* C10, amended: a parsed response whose Response object contains an Error
\* object never returns response fields; it raises ActionError built from
\* the requested action, Error.Code, Error.Message and Response.RequestId
\* when these three fields are present and non-empty.
ErrorEnvelopeRaises ==
    (/\ try_call.done /\ try_call.sent
     /\ try_call.response.transport_ok /\ try_call.response.status = 200
     /\ try_call.response.json_ok /\ try_call.response.has_response
     /\ try_call.response.has_error)
    => LET r == try_call.response
           complete == /\ r.code \notin {<<>>, <<"">>}
                       /\ r.message \notin {<<>>, <<"">>}
                       /\ r.request_id \notin {<<>>, <<"">>}
       IN  /\ try_call.kind = "raise"
           /\ try_call.returned = <<>>
           /\ complete =>
                  (/\ try_call.error.kind = "ActionError"
                   /\ try_call.error.action_id = try_call.args.action_id
                   /\ <<try_call.error.error_id>> = r.code
                   /\ <<try_call.error.error_message>> = r.message
                   /\ <<try_call.error.request_id>> = r.request_id)
           /\ ~complete => try_call.error.kind # "ActionError"

ErrorEnvelopeRaisesWitness ==
    /\ try_call.done
    /\ try_call.response.has_error
    /\ try_call.kind = "raise"
    /\ try_call.error =
           MakeError("ActionError", 0, "Invoke", "ResourceNotFound",
                     "message", "request-1")

\* C11, as stated: a 200 response whose envelope has no Error object and no
\* RequestId raises ActionResultError, an exception the retry loop does not
\* intercept.
MissingRequestIdRaisesActionResultError ==
    (/\ try_call.done /\ try_call.sent
     /\ try_call.response.transport_ok /\ try_call.response.status = 200
     /\ try_call.response.json_ok /\ try_call.response.has_response
     /\ ~try_call.response.has_error
     /\ try_call.response.request_id = <<>>)
    => (/\ try_call.kind = "raise"
        /\ try_call.error.kind = "ActionResultError"
        /\ ~Intercepted(try_call.error))

\* C12: Last response metadata.  The value get_last_response_metadata()
\* returns is None until an attempt succeeds; an attempt that returns stores
\* one record holding the request id it returned, replacing the value held
\* before, and an attempt that raises leaves the stored value as it was.
LastResponseMetadata ==
    /\ [](\/ last_response_metadata = <<>>
          \/ Len(last_response_metadata) = 1)
    /\ []((try_call.done /\ try_call.kind = "return")
             => last_response_metadata = try_call.returned)
    /\ [][IF try_call'.kind = "return"
          THEN last_response_metadata' = try_call'.returned
          ELSE last_response_metadata' = last_response_metadata]_vars

LastResponseMetadataWitness ==
    /\ try_call.done
    /\ try_call.kind = "raise"
    /\ try_call.error.kind = "ActionError"
    /\ last_response_metadata = <<"request-1">>

\* C13: Duplicate and missing handlers.  add_handler with a handler that is
\* in the chain raises ExistedError and remove_handler with a handler that
\* is not in the chain raises NotFoundError; a call that raises one of the
\* two leaves the chain as it was, and the chain never holds the same
\* handler twice.
HandlerChainUnique ==
    /\ [](\A i, j \in 1..Len(error_handlers) :
             i # j => error_handlers[i] # error_handlers[j])
    /\ [](\A h \in Handlers(MaxUserHandlers) :
             IF Contains(error_handlers, h)
             THEN /\ AddHandlerRaised(error_handlers, h) = "ExistedError"
                  /\ AppendHandler(error_handlers, h) = error_handlers
                  /\ RemoveHandlerRaised(error_handlers, h) = "None"
             ELSE /\ RemoveHandlerRaised(error_handlers, h) = "NotFoundError"
                  /\ AddHandlerRaised(error_handlers, h) = "None")
    /\ [][handler_call'.raised \in {"ExistedError", "NotFoundError"}
             => error_handlers' = error_handlers]_vars
    /\ [][error_handlers' # error_handlers
             => handler_call'.raised = "None"]_vars

HandlerChainUniqueWitness ==
    /\ handler_call.raised = "ExistedError"
    /\ Len(error_handlers) = 3
    /\ error_handlers[1] # BuiltinHandler

\* C14, as stated: every generate_and_signature call that returns has used
\* one credential set: the secret id of its Authorization header, the
\* secret key of its HMAC and the token it returns belong to one of the
\* sets given to the object, whatever set_secret_info and refresh calls ran
\* at the same time.
SigningUsesOneCredentialSet ==
    (sign_call.pc = "done" /\ sign_call.raised = "None")
        => sign_call.used \in SecretSets

\* C15: Credentials stay valid.  In every state of a constructed Credentials
\* object the secret id and the secret key are non-empty strings.  A
\* set_secret_info or refresh_secret_info call that raises (ValueError of a
\* check, KeyError of a missing environment variable) writes no field, and
\* a call that passes the checks assigns the id, the key and the token it
\* was given (that it read from the environment), one after the other.
SecretsStayValid ==
    /\ [](/\ IsStr(credentials.secret.id) /\ Truthy(credentials.secret.id)
          /\ IsStr(credentials.secret.key) /\ Truthy(credentials.secret.key))
    /\ [][(set_call' # set_call /\ set_call'.raised # "None")
             => (/\ set_call'.raised \in {"ValueError", "KeyError"}
                 /\ set_call'.pc = "done"
                 /\ credentials' = credentials)]_vars
    /\ [][(sign_call' # sign_call /\ sign_call'.raised # "None")
             => (/\ sign_call'.pc = "done"
                 /\ credentials' = credentials)]_vars
    /\ [][(set_call' # set_call /\ set_call'.raised = "None") =>
             \/ /\ set_call'.pc = "secret_key"
                /\ ValidateSecretInfo(set_call'.args) = "None"
                /\ credentials'.secret =
                       [credentials.secret EXCEPT !.id = set_call'.args.id]
             \/ /\ set_call'.pc = "secret_token"
                /\ credentials'.secret =
                       [credentials.secret EXCEPT !.key = set_call.args.key]
             \/ /\ set_call.pc = "secret_token" /\ set_call'.pc = "done"
                /\ credentials'.secret =
                       [credentials.secret EXCEPT
                           !.token = set_call.args.token]
             \/ /\ credentials.class = "Credentials"
                /\ set_call.pc # "secret_token" /\ set_call'.pc = "done"
                /\ credentials' = credentials]_vars
    /\ []((/\ set_call.pc = "done" /\ set_call.raised = "None"
           /\ set_call.args = NewSecret
           /\ sign_call.pc \notin {"secret_key", "secret_token"}
           /\ credentials.class = "Credentials")
             => credentials.secret = NewSecret)

SecretsStayValidWitness ==
    /\ set_call.pc = "done"
    /\ set_call.raised = "ValueError"
    /\ set_call.args.key = Str("")
    /\ credentials.secret = NewSecret
    /\ sign_call.pc = "idle"

\* C16, as stated: for every paginated lister, when the server holds
\* k * Limit + s items with 0 < s < Limit (k full pages, then a page of s
\* items) and every request is answered, the lister makes at most k + 1
\* requests, yields the items in page order, and has yielded exactly
\* k * Limit + s items with exactly k + 1 requests when it ends.
PaginationTerminates ==
    (/\ lister.pc # "idle"
     /\ lister.defect = 0
     /\ lister.raised = "None"
     /\ lister.total % lister.limit # 0)
    => LET k == lister.total \div lister.limit
       IN  /\ Len(lister.requests) <= k + 1
           /\ Len(lister.yielded) <= lister.total
           /\ \A i \in 1..Len(lister.yielded) : lister.yielded[i] = i
           /\ lister.pc = "done" =>
                  (/\ Len(lister.yielded) = lister.total
                   /\ Len(lister.requests) = k + 1)

\* C17, as stated: in every paginated lister, list_instances included, the
\* i-th page request (i = 0, 1, 2, ...) carries Offset = i * Limit, so no
\* offset is requested twice and no item is yielded twice.
OffsetAdvancesByLimit ==
    (lister.pc # "idle") =>
        /\ \A i \in 1..Len(lister.requests) :
               lister.requests[i] = (i - 1) * lister.limit
        /\ \A i, j \in 1..Len(lister.requests) :
               i # j => lister.requests[i] # lister.requests[j]
        /\ \A i, j \in 1..Len(lister.yielded) :
               i # j => lister.yielded[i] # lister.yielded[j]

\* C18: Partial results are kept.  When the lister reaches an item that
\* lacks a field it maps, it has yielded, in order, every item before it
\* (of this page and of the pages before), and it ends in that step by
\* raising ActionResultError: the items yielded stay yielded, no request is
\* added, and the ended generator yields nothing and requests nothing.
PartialResultsKept ==
    /\ [][(/\ lister.pc \in {"request", "yield"}
           /\ lister'.missing = "item")
          => (/\ lister'.pc = "done"
              /\ lister'.raised = "ActionResultError"
              /\ lister'.yielded = lister.yielded
              /\ lister'.requests = lister.requests
              /\ lister'.yielded = [i \in 1..(lister.defect - 1) |-> i])]_vars
    /\ []((lister.pc = "done" /\ lister.missing = "item")
          => (/\ lister.raised = "ActionResultError"
              /\ lister.yielded = [i \in 1..(lister.defect - 1) |-> i]
              /\ Len(lister.requests) =
                     ((lister.defect - 1) \div lister.limit) + 1))
    /\ [][(lister.pc = "done")
          => (/\ lister'.pc = "request"
              /\ lister'.yielded = <<>>
              /\ lister'.requests = <<0>>)]_vars

PartialResultsKeptWitness ==
    /\ lister.pc = "done"
    /\ lister.operation = "list_functions"
    /\ lister.raised = "ActionResultError"
    /\ lister.missing = "item"
    /\ lister.defect = lister.limit + 1
    /\ Len(lister.yielded) = lister.limit
    /\ lister.requests = <<0, lister.limit>>

\* C19, as stated: assigning a positive integer v to max_backoff_interval
\* makes the property read v, assigning an invalid value keeps the value
\* held before, and no Backoff delay exceeds the value held.
BackoffIntervalConfigurable ==
    /\ \A v \in BackoffInputs :
           StoredMaxBackoffInterval(max_backoff_interval, v) =
               IF v > 0 THEN v ELSE max_backoff_interval
    /\ (call.pc = "sleep")
           => call.backoff_ms <= 1000 * max_backoff_interval

\* C20, as stated: max_number_of_retries is greater than 0 in every state
\* of an ErrorManager, whatever integers its setter has been given.
RetriesAlwaysPositive == max_number_of_retries > 0

(***************************************************************************)
(* C21: retry state is per call.  While calls are interleaved on one       *)
(* client, the retry counter of each call is the number of attempts that   *)
(* call itself has finished (one less than the attempts it has started     *)
(* while it runs, all of them once it has ended), and the counts the call  *)
(* has passed to the handler chain are 0, 1, 2, ... in order, whatever the *)
(* other calls have done.                                                  *)
(***************************************************************************)
RetryStatePerCall ==
    \A t \in Tasks :
        LET c == tasks[t]
        IN  /\ c.pc \in {"http", "sleep"}
               => c.error_retry_count = c.attempts - 1
            /\ c.pc = "done" => c.error_retry_count = c.attempts
            /\ c.pc = "http" => c.finished = c.attempts - 1
            /\ c.pc \in {"sleep", "done"} => c.finished = c.attempts
            /\ Len(c.handled) = c.handler_calls
            /\ \A i \in 1..Len(c.handled) : c.handled[i] = i - 1

\* one call is at its first attempt while the other has failed and retried
RetryStatePerCallWitness ==
    \E t, u \in Tasks :
        /\ tasks[t].pc = "http" /\ tasks[t].attempts = 1
        /\ tasks[t].error_retry_count = 0
        /\ tasks[u].pc = "http" /\ tasks[u].attempts >= 3
        /\ tasks[u].handled = <<0, 1>>

(***************************************************************************)
(* C22: the synchronous and asynchronous variants of action_for_product    *)
(* are equivalent.  Whatever a call signed for and posted to is what the   *)
(* other variant signs for and posts to on the same client with the same   *)
(* arguments, and a call without access_endpoint uses the endpoint of the  *)
(* given product, product_id + '.tencentcloudapi.com'.                     *)
(***************************************************************************)
ActionForProductEquivalent ==
    product_call.called =>
        /\ \A variant \in {"action_for_product_async", "action_for_product"} :
               product_call.request_hostname =
                   RequestHost(product_call.bound,
                               PassedEndpoint(variant,
                                              product_call.product_id,
                                              product_call.access_endpoint))
        /\ product_call.url_host = product_call.request_hostname
        /\ NoEndpoint(product_call.access_endpoint)
           => product_call.request_hostname =
                  EndpointOf(product_call.product_id)

(***************************************************************************)
(* C23: exactly one proxy server is active.  After any calls of            *)
(* add_proxy_server, use_proxy_server and remove_proxy_server the active   *)
(* proxy name is a registered entry and proxy_type, proxy_endpoint and     *)
(* proxy_auth are that entry's values; a call that raises (ExistedError,   *)
(* NotFoundError, OccupiedError, ValueError) leaves the entries and the    *)
(* active entry as they were.                                              *)
(***************************************************************************)
OneActiveProxy ==
    /\ [](/\ proxies.proxy_name \in DOMAIN proxies.servers
          /\ proxies.proxy_type = proxies.servers[proxies.proxy_name].type
          /\ proxies.proxy_endpoint =
                 proxies.servers[proxies.proxy_name].endpoint
          /\ proxies.proxy_auth = proxies.servers[proxies.proxy_name].auth)
    /\ [](proxy_call.raised \in {"None", "ExistedError", "NotFoundError",
                                 "OccupiedError", "ValueError"})
    /\ [][proxy_call'.raised # "None" => proxies' = proxies]_vars

\* the active entry was switched, a removal of it was refused, and the
\* entry first active has been removed since
OneActiveProxyWitness ==
    /\ proxies.proxy_name = "b"
    /\ proxies.proxy_type = "https"
    /\ proxies.proxy_auth = "auth-1"
    /\ "a" \notin DOMAIN proxies.servers
    /\ proxy_call.method = "remove_proxy_server"
    /\ proxy_call.raised = "OccupiedError"

(***************************************************************************)
(* C24: a call whose first attempt succeeds returns the response fields of *)
(* that attempt, has not invoked the handler chain and has not slept.  In  *)
(* general the handler chain is invoked at most once for each failed       *)
(* attempt, in the step in which the attempt fails, and never in a step in *)
(* which an attempt succeeds or after it; a sleep follows an invocation.   *)
(***************************************************************************)
SuccessSkipsHandlers ==
    /\ [](call.outcome = "returned"
          => /\ call.returned # <<>>
             /\ call.returned = last_response_metadata
             /\ call.error = NoError
             /\ call.pc = "done")
    /\ [](call.outcome = "returned" /\ call.attempts = 1
          => call.handler_calls = 0 /\ call.sleeps = 0)
    /\ [](/\ call.handler_calls
               <= call.finished - (IF call.outcome = "returned" THEN 1 ELSE 0)
          /\ call.sleeps <= call.handler_calls)
    /\ [][call'.handler_calls > call.handler_calls
          => /\ call.pc = "http"
             /\ call'.handler_calls = call.handler_calls + 1
             /\ call'.finished = call.finished + 1
             /\ call'.error # NoError
             /\ call'.outcome # "returned"]_vars
    /\ [][call.outcome = "returned" /\ call'.outcome = "returned"
          => /\ call'.handler_calls = call.handler_calls
             /\ call'.sleeps = call.sleeps
             /\ call'.attempts = call.attempts
             /\ call'.returned = call.returned]_vars

\* a first attempt that succeeded
SuccessSkipsHandlersWitness ==
    /\ call.outcome = "returned"
    /\ call.attempts = 1
    /\ call.returned = <<"request-1">>
    /\ call.handler_calls = 0

(***************************************************************************)
(* C25: every attempt that signs, the first one and each retry, calls      *)
(* refresh_secret_info exactly once, before signature and                  *)
(* generate_auth_content, and the Authorization header and the token of    *)
(* the attempt are computed from the credential set current at that        *)
(* attempt: the fields of a Credentials object as last set, the            *)
(* environment variables of an EnvironmentalCredentials object as they     *)
(* are then.                                                               *)
(***************************************************************************)
SignsWithCurrentCredentials ==
    /\ Len(signatures) = call.sign_calls
    /\ call.sign_calls = call.attempts
    /\ \A i \in 1..Len(signatures) :
           LET s == signatures[i]
           IN  /\ s.calls[1] = "refresh_secret_info"
               /\ \A j \in 2..Len(s.calls) : s.calls[j] # "refresh_secret_info"
               /\ s.raised = "None"
                  => /\ \E j \in 2..Len(s.calls) : s.calls[j] = "signature"
                     /\ s.used = s.current
               /\ s.raised # "None" => i = Len(signatures) /\ call.pc = "done"

\* the token was rotated between two attempts of one call, and the retry
\* signed with the new token
SignsWithCurrentCredentialsWitness ==
    /\ credentials.class = "EnvironmentalCredentials"
    /\ Len(signatures) = 2
    /\ call.pc = "http"
    /\ signatures[1].used = OldSecret
    /\ signatures[2].used = RotatedSecret

(***************************************************************************)
(* C26, as stated: every call makes a bounded number of attempts.  The     *)
(* loop ends a failing call only when error_retry_count equals             *)
(* max_number_of_retries, and the counter only grows: the call is bounded  *)
(* only as long as the counter of a running call has not passed the limit, *)
(* for every value the setter accepts and every change of the limit        *)
(* between two attempts.                                                   *)
(***************************************************************************)
AttemptsBounded ==
    call.pc \in {"http", "sleep"}
    => call.error_retry_count <= max_number_of_retries

(***************************************************************************)
(* C27, as stated: the verdict ErrorManager.handler returns, and the retry *)
(* loop acts on, is Throw, Retry or Backoff for handlers that return any   *)
(* integer.  call.verdict is the verdict of the latest failed attempt, and *)
(* Ignore while the chain has not been consulted for it.                   *)
(***************************************************************************)
VerdictIsThrowRetryOrBackoff ==
    call.verdict # Ignore => call.verdict \in {Throw, Retry, Backoff}

(***************************************************************************)
(* C28, as stated: completion of an OperationWaitable is monotone.  Once a *)
(* wait_for_done_async call has returned a result, has_done() is true and  *)
(* the status is not Created, whatever later or concurrent calls on the    *)
(* object do.                                                              *)
(***************************************************************************)
CompletionMonotone ==
    waitable.completed
    => has_done(waitable) /\ waitable.status # Created

(***************************************************************************)
(* C29, as stated: every scheduled invoke task that was created triggers   *)
(* the client's completed callback exactly once when its invocation        *)
(* finishes, with a result or with an error, with or without an invoked    *)
(* callback; so the pending schedule count of the client is the number of  *)
(* tasks created and not yet finished, it is never negative, and a         *)
(* run_schedule that waits has tasks left to wait for.                     *)
(***************************************************************************)
EveryScheduleCompletes ==
    /\ \A t \in ScheduleIds :
           schedule.tasks[t].state = "finished"
           => schedule.tasks[t].completed_calls = 1
    /\ schedule.count =
           Cardinality({t \in ScheduleIds :
                          schedule.tasks[t].state \in {"created", "running"}})
    /\ schedule.count >= 0
    /\ schedule.waited
       => \E t \in ScheduleIds :
              schedule.tasks[t].state \in {"created", "running"}

\* C30: a FunctionResultFuture is resolved exactly once, by what the
\* latest fetch of the function result gave: NotFoundError leaves it
\* pending with a new fetch scheduled or running, any other exception of
\* the fetch is its exception, a result that is not successful resolves
\* it with InvokeError, and a successful result resolves it with the
\* inferred return value.  It never holds both an exception and a result.
FutureResolvedByFetch ==
    \A f \in Futures :
        LET fu == futures[f] IN
        /\ fu.pc \in {"new", "fetching", "timer"} => fu.state = "pending"
        /\ fu.fetched = "NotFoundError" =>
               /\ fu.state = "pending"
               /\ fu.pc \in {"timer", "fetching"}
        /\ fu.pc = "idle" /\ fu.fetched \in FetchErrors =>
               /\ fu.state = "exception"
               /\ fu.exception = <<fu.fetched>>
        /\ fu.pc = "idle" /\ fu.fetched = "unsuccessful" =>
               /\ fu.state = "exception"
               /\ fu.exception = <<"InvokeError">>
        /\ fu.pc = "idle" /\ fu.fetched = "successful" =>
               /\ fu.state = "result"
               /\ fu.result # <<>>
        /\ ~(fu.exception # <<>> /\ fu.result # <<>>)

====
